---- MODULE Spec2Model ----
(***************************************************************************)
(* A model of omnibor-go: the ArtifactTree of src/omnibor.go (a mutex      *)
(* guarded slice of References with a sorted text form and a self          *)
(* identity) and the git-object hash of src/pkg/cmd/gitbom_cmd.go.         *)
(*                                                                         *)
(* Strings are sequences of byte values, as Go strings are: the text       *)
(* "blob " is <<98, 108, 111, 98, 32>>, and s1 < s2 is the byte-wise       *)
(* lexicographic order.  The digests of crypto/sha1 and crypto/sha256 are  *)
(* replaced by a small mixing function that keeps what the program relies  *)
(* on: a digest is a function of the algorithm and of the bytes written,   *)
(* in order, and has 20 (sha1) or 32 (sha256) bytes.  NoCollision states   *)
(* that the identities the runs compute differ when their inputs differ.   *)
(***************************************************************************)
EXTENDS Integers, Sequences, FiniteSets, TLC

VARIABLES
    trees,      \* tree object |-> [hashType, gitRefs]          (omniBor struct)
    last,       \* the last call that returned: its name, arguments and results
    plan,       \* the adds a run has been given and how far it has got
    workers,    \* thread |-> where it is in its call of addGitRef
    lock,       \* tree object |-> the thread holding srv.lock, 0 when unlocked
    driver,     \* where artifactTreeCall is, its WaitGroup and what it returns
    agentChan   \* the channel of fileEvents: whether it is closed

vars == <<trees, last, plan, workers, lock, driver, agentChan>>

(***************************************************************************)
(* Bounds                                                                  *)
(***************************************************************************)
MaxRefs == 3        \* no add is started on a tree that holds MaxRefs References
MaxLen == 2         \* longest stream handed to generateGitHash on its own
MaxPairs == 3       \* most (content, bom) pairs added in two orders
MaxWorkers == 2     \* most threads adding to one tree at the same time
MaxStack == 4       \* frames a goroutine's stack has room for
MaxFiles == 2       \* most entries the walk of the arguments comes across

(***************************************************************************)
(* Text constants and conversions                                          *)
(***************************************************************************)
BlobText == <<98, 108, 111, 98, 32>>        \* "blob "
BomText == <<32, 98, 111, 109, 32>>         \* " bom "
NewLine == <<10>>                           \* "\n"
NulByte == <<0>>                            \* "\u0000"
PlusText == <<43>>                          \* "+"
Hello == <<104, 101, 108, 108, 111>>        \* "hello"
World == <<119, 111, 114, 108, 100>>        \* "world"
Hello2 == <<104, 101, 108, 108, 111, 50>>   \* "hello2"

\* s1 < s2 on Go strings: byte-wise lexicographic
StrLess(s1, s2) ==
    \E k \in 1..(Len(s1) + 1) :
        /\ k <= Len(s2)
        /\ \A i \in 1..(k - 1) : s1[i] = s2[i]
        /\ (k = Len(s1) + 1 \/ s1[k] < s2[k])

\* fmt's %d
RECURSIVE DecimalNat(_)
DecimalNat(n) ==
    IF n < 10 THEN <<48 + n>> ELSE DecimalNat(n \div 10) \o <<48 + (n % 10)>>

Decimal(n) == IF n < 0 THEN <<45>> \o DecimalNat(0 - n) ELSE DecimalNat(n)

\* encoding/hex: "0123456789abcdef"
HexDigit(v) == IF v < 10 THEN 48 + v ELSE 87 + v

\* f \o <<>> is f, and CHOOSE x \in {e(b) : b \in {bytes}} : TRUE is e(bytes);
\* written so, TLC computes the argument and the sequence once instead of on
\* every access to one of their elements
EncodeToString(bytes) ==
    CHOOSE s \in {[i \in 1..(2 * Len(b)) |->
                      IF i % 2 = 1 THEN HexDigit(b[(i + 1) \div 2] \div 16)
                                   ELSE HexDigit(b[i \div 2] % 16)] \o <<>> : b \in {bytes}} : TRUE

IsHexChar(c) == c \in (48..57) \cup (97..102) \cup (65..70)

\* hex.DecodeString(s) returns no error
DecodeStringOk(s) == Len(s) % 2 = 0 /\ \A i \in 1..Len(s) : IsHexChar(s[i])

RECURSIVE JoinBackwards(_, _)
JoinBackwards(strs, sep) ==
    IF Len(strs) = 0 THEN <<>>
    ELSE IF Len(strs) = 1 THEN strs[1]
    ELSE JoinBackwards(Tail(strs), sep) \o sep \o strs[1]

\* strings.Join
RECURSIVE Join(_, _)
Join(strs, sep) ==
    IF Len(strs) = 0 THEN <<>>
    ELSE IF Len(strs) = 1 THEN strs[1]
    ELSE strs[1] \o sep \o Join(Tail(strs), sep)

(***************************************************************************)
(* hash.Hash: New, Write, Sum                                              *)
(***************************************************************************)
DigestSize(alg) == IF alg = "sha256" THEN 32 ELSE 20

\* The state of a hash.Hash is [alg, written]: the algorithm and all the bytes
\* written so far, in order.  Sum mixes, for each byte of the digest, the
\* number of bytes written with the bytes at three places that depend on it.
HashNew(alg) == [alg |-> alg, written |-> <<>>]

HashWrite(h, data) == [h EXCEPT !.written = @ \o data]

HashSum(h) ==
    CHOOSE sum \in
        {LET n == Len(w)
             salt == IF alg = "sha256" THEN 7 ELSE 3
         IN  [i \in 1..DigestSize(alg) |->
                 IF n = 0 THEN (i * salt) % 256
                 ELSE (w[1 + ((i * 7) % n)] * 3 + w[1 + ((i * i + salt) % n)] * 5
                         + w[n - (i % n)] + n * i + salt) % 256] \o <<>> :
           w \in {h.written}, alg \in {h.alg}} : TRUE

(***************************************************************************)
(* generateGitHash (src/pkg/cmd/gitbom_cmd.go)                             *)
(* A reader is [data, fail]: it yields data and then io.EOF, or, when fail *)
(* is set, an error other than io.EOF.  The result is [out, err, hashed]:   *)
(* hashed are the digests of the caller as the call leaves them.           *)
(***************************************************************************)
HeaderWithoutNul(length) == BlobText \o Decimal(length)

\* fmt.Sprintf("blob %d\u0000", length)
Header(length) == BlobText \o Decimal(length) \o NulByte

generateGitHashShortOnly(reader, length, hashAlgorithm) ==
    LET header == Header(length)
        written == Len(reader.data)
        hashed == [i \in DOMAIN hashAlgorithm |->
                     HashWrite(HashWrite(HashNew(hashAlgorithm[i]), header), reader.data)]
        results == [i \in DOMAIN hashAlgorithm |-> EncodeToString(HashSum(hashed[i]))]
    IN  IF reader.fail THEN [out |-> <<>>, err |-> "read", hashed |-> hashed]
        ELSE IF written < length THEN [out |-> <<>>, err |-> "short read", hashed |-> hashed]
        ELSE [out |-> Join(results, PlusText), err |-> "nil", hashed |-> hashed]

generateGitHash(reader, length, hashAlgorithm) ==
    LET header == Header(length)
        written == Len(reader.data)
        hashed == [i \in DOMAIN hashAlgorithm |->
                     HashWrite(HashWrite(HashNew(hashAlgorithm[i]), header), reader.data)]
        results == [i \in DOMAIN hashAlgorithm |-> EncodeToString(HashSum(hashed[i]))]
    IN  IF reader.fail THEN [out |-> <<>>, err |-> "read", hashed |-> hashed]
        ELSE IF written < length THEN [out |-> <<>>, err |-> "short read", hashed |-> hashed]
        ELSE IF written > length THEN [out |-> <<>>, err |-> "long read", hashed |-> hashed]
        ELSE [out |-> Join(results, PlusText), err |-> "nil", hashed |-> hashed]

(***************************************************************************)
(* gitoid.New as omniBor calls it (src/omnibor.go): the library writes the *)
(* header "blob <length>\0", copies the reader into the digest and fails   *)
(* when the reader fails or yields another number of bytes than declared.  *)
(* The library is not part of the sources; a declared length of 0 is how   *)
(* it is told that no length is declared, so for a non-empty stream with   *)
(* objLength = 0 both outcomes are kept: the error, and the identity of    *)
(* the whole stream.                                                       *)
(***************************************************************************)
gitoidHash(data, length, hashType) ==
    EncodeToString(HashSum(HashWrite(HashWrite(HashNew(hashType), Header(length)), data)))

gitoidNew(reader, length, hashType) ==
    LET n == Len(reader.data)
        ok(len) == [out |-> gitoidHash(reader.data, len, hashType), err |-> "nil"]
        bad == [out |-> <<>>, err |-> "content length"]
    IN  IF reader.fail THEN {[out |-> <<>>, err |-> "read"]}
        ELSE IF length = 0 /\ n > 0 THEN {bad, ok(n)}
        ELSE IF n # length THEN {bad}
        ELSE {ok(length)}

(***************************************************************************)
(* Reference, Identifier and the sort (src/omnibor.go)                     *)
(* A bom is nil, an identifier made by NewIdentifier, or an ArtifactTree   *)
(* object: the interface value keeps the object, not its identity.         *)
(***************************************************************************)
NilBom == [kind |-> "nil"]
IdentifierBom(identity) == [kind |-> "identifier", identity |-> identity]
TreeBom(t) == [kind |-> "tree", tree |-> t]

\* reference.Bom calls itself: every call adds a frame to the stack of the
\* goroutine, and the runtime ends the program when the stack is full
RECURSIVE referenceBom(_, _)
referenceBom(ref, frames) ==
    IF frames >= MaxStack THEN [out |-> NilBom, err |-> "stack overflow"]
    ELSE referenceBom(ref, frames + 1)

\* NewIdentifier: [out, err]
newIdentifier(identity) ==
    IF ~DecodeStringOk(identity) THEN [out |-> NilBom, err |-> "hex"]
    ELSE [out |-> IdentifierBom(identity), err |-> "nil"]

referenceSorterReversed(r1, r2) == StrLess(r2.identity, r1.identity)

referenceSorter(r1, r2) == StrLess(r1.identity, r2.identity)

\* sort.Sort on at most 12 elements is insertionSort: element i is swapped
\* to the left while Less(j, j-1)
insertBefore(sorted, r) ==
    LET stop == {j \in 1..Len(sorted) : ~referenceSorter(r, sorted[j])}
        p == IF stop = {} THEN 0 ELSE CHOOSE j \in stop : \A k \in stop : k <= j
    IN  SubSeq(sorted, 1, p) \o <<r>> \o SubSeq(sorted, p + 1, Len(sorted))

RECURSIVE insertionSort(_, _)
insertionSort(refs, i) ==
    IF i > Len(refs) THEN refs
    ELSE insertionSort(insertBefore(SubSeq(refs, 1, i - 1), refs[i])
                         \o SubSeq(refs, i + 1, Len(refs)), i + 1)

unsorted(refs) == refs

reversed(refs) == [k \in 1..Len(refs) |-> refs[Len(refs) + 1 - k]]

bySort(refs) == insertionSort(refs, 2)

(***************************************************************************)
(* omniBor.String, reference.String, omniBor.gitRef                        *)
(* String sorts the slice of its tree in place and joins the lines of the  *)
(* sorted slice.  Printing a Reference whose bom is a tree calls that      *)
(* tree's Identity, hence its String, which sorts that tree's slice too:   *)
(* Printed(ts, t) are the trees whose String runs when String runs on t.   *)
(* The text is StringOf; the sorting is AfterString.                       *)
(***************************************************************************)
RECURSIVE StringOf(_, _), gitRef(_, _), Printed(_, _)

referenceStringNoBom(ts, ref) == BlobText \o ref.identity \o NewLine

referenceString(ts, ref) ==
    IF ref.bom.kind = "nil" THEN BlobText \o ref.identity \o NewLine
    ELSE IF ref.bom.kind = "identifier"
    THEN BlobText \o ref.identity \o BomText \o ref.bom.identity \o NewLine
    ELSE BlobText \o ref.identity \o BomText \o gitRef(ts, ref.bom.tree) \o NewLine

StringOf(ts, t) ==
    CHOOSE text \in
        {Join([k \in 1..Len(sorted) |-> referenceString(ts, sorted[k])] \o <<>>, <<>>) :
           sorted \in {bySort(ts[t].gitRefs)}} : TRUE

gitRefOfFirstLine(ts, t) ==
    LET generated == StringOf(ts, t)
        cut == IF Len(ts[t].gitRefs) > 1
               THEN SubSeq(generated, 1, Len(generated) \div Len(ts[t].gitRefs))
               ELSE generated
    IN  gitoidHash(cut, Len(cut), ts[t].hashType)

gitRef(ts, t) ==
    CHOOSE res \in {gitoidHash(generated, Len(generated), ts[t].hashType) :
                       generated \in {StringOf(ts, t)}} : TRUE

Printed(ts, t) ==
    {t} \cup UNION {Printed(ts, ts[t].gitRefs[k].bom.tree) :
                       k \in {j \in 1..Len(ts[t].gitRefs) : ts[t].gitRefs[j].bom.kind = "tree"}}

AfterString(ts, t) ==
    LET printed == Printed(ts, t)
    IN  [u \in DOMAIN ts |-> IF u \in printed THEN [ts[u] EXCEPT !.gitRefs = bySort(@)]
                                              ELSE ts[u]]

(***************************************************************************)
(* The add operations of omniBor (src/omnibor.go)                          *)
(***************************************************************************)
\* every way addGitRef can end: [ts, err]
addGitRefOnError(ts, t, reader, bom, length) ==
    {[ts |-> [ts EXCEPT ![t].gitRefs = Append(@, [identity |-> o.out, bom |-> bom])],
      err |-> o.err] : o \in gitoidNew(reader, length, ts[t].hashType)}

addGitRef(ts, t, reader, bom, length) ==
    {IF o.err # "nil"
     THEN [ts |-> ts, err |-> o.err]
     ELSE [ts |-> [ts EXCEPT ![t].gitRefs = Append(@, [identity |-> o.out, bom |-> bom])],
           err |-> "nil"] : o \in gitoidNew(reader, length, ts[t].hashType)}

addExistingNoLengthCheck(ts, t, input) ==
    IF ~DecodeStringOk(input) THEN [ts |-> ts, err |-> "hex"]
    ELSE IF \E k \in 1..Len(ts[t].gitRefs) : ts[t].gitRefs[k].identity = input
    THEN [ts |-> ts, err |-> "nil"]
    ELSE [ts |-> [ts EXCEPT ![t].gitRefs = Append(@, [identity |-> input, bom |-> NilBom])],
          err |-> "nil"]

addExistingNoDedup(ts, t, input) ==
    LET hashLength == IF ts[t].hashType = "sha256" THEN 64 ELSE 40
    IN  IF Len(input) # hashLength THEN [ts |-> ts, err |-> "invalid hash length"]
        ELSE IF ~DecodeStringOk(input) THEN [ts |-> ts, err |-> "hex"]
        ELSE [ts |-> [ts EXCEPT ![t].gitRefs =
                          Append(@, [identity |-> input, bom |-> NilBom])],
              err |-> "nil"]

addExisting(ts, t, input) ==
    LET hashLength == IF ts[t].hashType = "sha256" THEN 64 ELSE 40
    IN  IF Len(input) # hashLength THEN [ts |-> ts, err |-> "invalid hash length"]
        ELSE IF ~DecodeStringOk(input) THEN [ts |-> ts, err |-> "hex"]
        ELSE IF \E k \in 1..Len(ts[t].gitRefs) : ts[t].gitRefs[k].identity = input
        THEN [ts |-> ts, err |-> "nil"]
        ELSE [ts |-> [ts EXCEPT ![t].gitRefs =
                          Append(@, [identity |-> input, bom |-> NilBom])],
              err |-> "nil"]

(***************************************************************************)
(* Spec: one thread calling the operations of gb2, a tree from             *)
(* NewSha1OmniBOR.  gb is a tree from NewSha256OmniBOR that was filled     *)
(* earlier and is passed to gb2 as a bom (TestMixedNestedWorkflow); here   *)
(* it is only read.                                                        *)
(***************************************************************************)
Contents == {Hello, World}
OpaqueIdentity == <<97, 56, 55, 100>>       \* "a87d", what NewIdentifier accepts

NewSha1OmniBOR == [hashType |-> "sha1", gitRefs |-> <<>>]
NewSha256OmniBOR == [hashType |-> "sha256", gitRefs |-> <<>>]

\* a tree after AddReference(obj, nil) for each obj of objs, in order
RECURSIVE Filled(_, _)
Filled(tree, objs) ==
    IF objs = <<>> THEN tree
    ELSE LET r == CHOOSE x \in addGitRef([t \in {"gb"} |-> tree], "gb",
                                         [data |-> Head(objs), fail |-> FALSE],
                                         NilBom, Len(Head(objs))) : TRUE
         IN  Filled(r.ts["gb"], Tail(objs))

BomTrees == {Filled(NewSha256OmniBOR, objs) : objs \in {<<>>, <<Hello, World>>, <<World, Hello>>}}

\* the (content, bom) pairs added to gb2
Boms == {NilBom, IdentifierBom(OpaqueIdentity), TreeBom("gb")}
AddArgs == {<<Hello, bom>> : bom \in Boms} \cup {<<World, NilBom>>}

Readers == {[data |-> Hello, fail |-> f] : f \in BOOLEAN}
ObjLengths(reader) == {0, Len(reader.data) - 1, Len(reader.data), Len(reader.data) + 1}
ReaderBoms == {NilBom, TreeBom("gb")}

Init ==
    /\ \E gb \in BomTrees : trees = [t \in {"gb", "gb2"} |-> IF t = "gb" THEN gb ELSE NewSha1OmniBOR]
    /\ last = [op |-> "none"]
    /\ plan = <<>>
    /\ workers = <<>>
    /\ lock = <<>>
    /\ driver = <<>>
    /\ agentChan = <<>>

CanAdd(t) == Len(trees[t].gitRefs) < MaxRefs

AddReference(t, obj, bom) ==
    /\ CanAdd(t)
    /\ \E r \in addGitRef(trees, t, [data |-> obj, fail |-> FALSE], bom, Len(obj)) :
          /\ trees' = r.ts
          /\ last' = [op |-> "AddReference", tree |-> t, obj |-> obj, bom |-> bom,
                      err |-> r.err]
    /\ UNCHANGED <<plan, workers, lock, driver, agentChan>>

AddReferenceFromReader(t, reader, bom, objLength) ==
    /\ CanAdd(t)
    /\ \E r \in addGitRef(trees, t, reader, bom, objLength) :
          /\ trees' = r.ts
          /\ last' = [op |-> "AddReferenceFromReader", tree |-> t,
                      read |-> Len(reader.data), fail |-> reader.fail,
                      objLength |-> objLength, err |-> r.err]
    /\ UNCHANGED <<plan, workers, lock, driver, agentChan>>

AddExistingReference(t, input) ==
    /\ CanAdd(t)
    /\ LET r == addExisting(trees, t, input)
       IN  /\ trees' = r.ts
           /\ last' = [op |-> "AddExistingReference", tree |-> t, input |-> input,
                       err |-> r.err]
    /\ UNCHANGED <<plan, workers, lock, driver, agentChan>>

ReferencesUnsorted(t) ==
    /\ last' = [op |-> "References", tree |-> t, out |-> trees[t].gitRefs]
    /\ UNCHANGED <<trees, plan, workers, lock, driver, agentChan>>

\* References returns srv.gitRefs, the sorted slice itself
References(t) ==
    /\ trees' = [trees EXCEPT ![t].gitRefs = bySort(@)]
    /\ last' = [op |-> "References", tree |-> t, out |-> trees'[t].gitRefs]
    /\ UNCHANGED <<plan, workers, lock, driver, agentChan>>

String(t) ==
    /\ trees' = AfterString(trees, t)
    /\ last' = [op |-> "String", tree |-> t, out |-> StringOf(trees, t)]
    /\ UNCHANGED <<plan, workers, lock, driver, agentChan>>

Identity(t) ==
    /\ trees' = AfterString(trees, t)
    /\ last' = [op |-> "Identity", tree |-> t, out |-> gitRef(trees, t)]
    /\ UNCHANGED <<plan, workers, lock, driver, agentChan>>

Next ==
    \/ \E a \in AddArgs : AddReference("gb2", a[1], a[2])
    \/ \E reader \in Readers : \E bom \in ReaderBoms, objLength \in ObjLengths(reader) :
          AddReferenceFromReader("gb2", reader, bom, objLength)
    \/ \E obj \in Contents : AddExistingReference("gb2", gitoidHash(obj, Len(obj), "sha1"))
    \/ References("gb2")
    \/ \E t \in {"gb", "gb2"} : String(t)
    \/ \E t \in {"gb", "gb2"} : Identity(t)

Spec == Init /\ [][Next]_vars

(***************************************************************************)
(* SpecHash: generateGitHash applied to streams of up to MaxLen bytes      *)
(***************************************************************************)
RECURSIVE SeqsUpTo(_, _)
SeqsUpTo(S, n) ==
    IF n = 0 THEN {<<>>}
    ELSE LET shorter == SeqsUpTo(S, n - 1)
         IN  shorter \cup {Append(s, x) : s \in {q \in shorter : Len(q) = n - 1}, x \in S}

HashStreams == SeqsUpTo({104, 119}, MaxLen)
HashLengths == (0 - 1)..(MaxLen + 1)
HashAlgorithms == {<<"sha1">>, <<"sha256">>, <<"sha1", "sha256">>, <<"sha256", "sha1">>}

InitHash ==
    /\ trees = <<>>
    /\ last = [op |-> "none"]
    /\ plan = <<>>
    /\ workers = <<>>
    /\ lock = <<>>
    /\ driver = <<>>
    /\ agentChan = <<>>

GenerateGitHash(reader, length, hashAlgorithm) ==
    /\ LET r == generateGitHash(reader, length, hashAlgorithm)
       IN  last' = [op |-> "generateGitHash", reader |-> reader, length |-> length,
                    hashAlgorithm |-> hashAlgorithm, out |-> r.out, err |-> r.err,
                    hashed |-> r.hashed]
    /\ UNCHANGED <<trees, plan, workers, lock, driver, agentChan>>

NextHash ==
    \E data \in HashStreams, fail \in BOOLEAN, length \in HashLengths,
       hashAlgorithm \in HashAlgorithms :
        GenerateGitHash([data |-> data, fail |-> fail], length, hashAlgorithm)

SpecHash == InitHash /\ [][NextHash]_vars

(***************************************************************************)
(* SpecExisting: AddExistingReference on a tree of either digest, given    *)
(* identities of both digests and damaged ones, as the tests of the        *)
(* malformed cases do                                                      *)
(***************************************************************************)
\* s[1:], "g" + s[1:], s + " " and s with its first character in upper case
Damaged(s) ==
    {Tail(s), <<103>> \o Tail(s), s \o <<32>>,
     <<IF Head(s) \in 97..102 THEN Head(s) - 32 ELSE Head(s)>> \o Tail(s)}

ExistingInputs ==
    LET gids == {gitoidHash(Hello, Len(Hello), h) : h \in {"sha1", "sha256"}}
    IN  gids \cup UNION {Damaged(s) : s \in gids}
             \cup {gitoidHash(World, Len(World), h) : h \in {"sha1", "sha256"}}

\* what NewIdentifier is given: the above, a short and an empty string, and
\* identities with a blank in front or inside
IdentifierInputs ==
    ExistingInputs \cup {OpaqueIdentity, <<>>}
        \cup {<<32>> \o Tail(s) : s \in {gitoidHash(Hello, Len(Hello), "sha1")}}
        \cup {SubSeq(s, 1, 15) \o <<32>> \o SubSeq(s, 17, Len(s)) :
                 s \in {gitoidHash(Hello, Len(Hello), "sha1")}}

NewIdentifier(identity) ==
    /\ LET r == newIdentifier(identity)
       IN  last' = [op |-> "NewIdentifier", input |-> identity, out |-> r.out, err |-> r.err]
    /\ UNCHANGED <<trees, plan, workers, lock, driver, agentChan>>

InitExisting ==
    /\ \E gb \in {NewSha1OmniBOR, NewSha256OmniBOR} : trees = [t \in {"gb"} |-> gb]
    /\ last = [op |-> "none"]
    /\ plan = <<>>
    /\ workers = <<>>
    /\ lock = <<>>
    /\ driver = <<>>
    /\ agentChan = <<>>

NextExisting ==
    \/ \E input \in ExistingInputs : AddExistingReference("gb", input)
    \/ \E obj \in Contents : AddReference("gb", obj, NilBom)
    \/ String("gb")
    \/ \E identity \in IdentifierInputs : NewIdentifier(identity)

SpecExisting == InitExisting /\ [][NextExisting]_vars

(***************************************************************************)
(* SpecNested: gb2 is given References whose bom is the tree gb, and gb is *)
(* given References before and after that (TestMixedNestedWorkflow, with   *)
(* adds to gb that come later).  Bom() is called on the References gb2     *)
(* holds; the program ends when the runtime reports the stack overflow.    *)
(***************************************************************************)
NestedArgs == {<<Hello, TreeBom("gb")>>, <<World, NilBom>>}

InitNested ==
    /\ trees = [t \in {"gb", "gb2"} |-> IF t = "gb" THEN NewSha256OmniBOR ELSE NewSha1OmniBOR]
    /\ last = [op |-> "none"]
    /\ plan = <<>>
    /\ workers = <<>>
    /\ lock = <<>>
    /\ driver = <<>>
    /\ agentChan = <<>>

\* Bom() of the k-th Reference that References() of t returned last
Bom(t, k) ==
    /\ k \in 1..Len(trees[t].gitRefs)
    /\ LET r == referenceBom(trees[t].gitRefs[k], 1)
       IN  last' = [op |-> "Bom", tree |-> t, k |-> k, out |-> r.out, err |-> r.err]
    /\ UNCHANGED <<trees, plan, workers, lock, driver, agentChan>>

Running == ~(last.op = "Bom" /\ last.err = "stack overflow")

NextNested ==
    \/ Running /\ \E obj \in Contents : AddReference("gb", obj, NilBom)
    \/ Running /\ \E a \in NestedArgs : AddReference("gb2", a[1], a[2])
    \/ Running /\ String("gb2")
    \/ Running /\ \E k \in 1..MaxRefs : Bom("gb2", k)

SpecNested == InitNested /\ [][NextNested]_vars

(***************************************************************************)
(* SpecCycle: one thread adds to the trees gb and gb2, with gb, gb2 or nil *)
(* as the bom, and calls String and Identity.  String holds srv.lock while *)
(* it prints its References; printing a Reference whose bom is a tree      *)
(* calls Identity, hence String, of that tree, which takes that tree's     *)
(* lock.  sync.Mutex is not reentrant: Lock on a mutex the thread holds    *)
(* never returns.                                                          *)
(***************************************************************************)
CycleArgs(t) ==
    IF t = "gb" THEN {<<Hello, TreeBom("gb")>>, <<Hello, TreeBom("gb2")>>, <<World, NilBom>>}
    ELSE {<<Hello, TreeBom("gb")>>, <<World, NilBom>>}

InitCycle ==
    /\ trees = [t \in {"gb", "gb2"} |-> NewSha1OmniBOR]
    /\ last = [op |-> "none"]
    /\ plan = <<>>
    /\ workers = <<>>
    /\ lock = [t \in {"gb", "gb2"} |-> 0]
    /\ driver = <<>>
    /\ agentChan = <<>>

\* String of tree t called by a thread that holds the locks of the trees
\* in held: [blocked, held, sorted], whether a Lock never returns, the locks
\* held then, and the trees whose slice was sorted on the way
RECURSIVE stringLocks(_, _, _), printLocks(_, _, _, _, _)

\* the loop over the sorted slice, from its k-th Reference on
printLocks(ts, t, held, k, sorted) ==
    LET refs == bySort(ts[t].gitRefs)
    IN  IF k > Len(refs) THEN [blocked |-> FALSE, held |-> held \ {t}, sorted |-> sorted]
        ELSE IF refs[k].bom.kind # "tree" THEN printLocks(ts, t, held, k + 1, sorted)
        ELSE LET inner == stringLocks(ts, refs[k].bom.tree, held)
             IN  IF inner.blocked
                 THEN [blocked |-> TRUE, held |-> inner.held, sorted |-> sorted \cup inner.sorted]
                 ELSE printLocks(ts, t, held, k + 1, sorted \cup inner.sorted)

stringLocks(ts, t, held) ==
    IF t \in held THEN [blocked |-> TRUE, held |-> held, sorted |-> {}]
    ELSE printLocks(ts, t, held \cup {t}, 1, {t})

\* the thread is stopped in srv.lock.Lock() for good
Blocked(call, t) ==
    \E r \in {stringLocks(trees, t, {})} :
        /\ r.blocked
        /\ trees' = [u \in DOMAIN trees |->
                        IF u \in r.sorted THEN [trees[u] EXCEPT !.gitRefs = bySort(@)]
                        ELSE trees[u]]
        /\ lock' = [u \in DOMAIN lock |-> IF u \in r.held THEN 1 ELSE 0]
        /\ last' = [op |-> "blocked", call |-> call, tree |-> t]
        /\ UNCHANGED <<plan, workers, driver, agentChan>>

CycleString(t) ==
    \/ Blocked("String", t)
    \/ ~stringLocks(trees, t, {}).blocked /\ String(t)

CycleIdentity(t) ==
    \/ Blocked("Identity", t)
    \/ ~stringLocks(trees, t, {}).blocked /\ Identity(t)

Awake == last.op # "blocked"

NextCycle ==
    \/ Awake /\ \E t \in {"gb", "gb2"} : \E a \in CycleArgs(t) : AddReference(t, a[1], a[2])
    \/ Awake /\ \E t \in {"gb", "gb2"} : CycleString(t)
    \/ Awake /\ \E t \in {"gb", "gb2"} : CycleIdentity(t)

SpecCycle == InitCycle /\ [][NextCycle]_vars

(***************************************************************************)
(* SpecOrder: two trees, "a" and "b", from NewSha1OmniBOR are given the    *)
(* same set of (content, bom) pairs, each in an order of its own.  plan    *)
(* holds the set, the two orders and how many adds each tree has made.     *)
(***************************************************************************)
OrderPairs ==
    {<<Hello, NilBom>>, <<Hello, IdentifierBom(OpaqueIdentity)>>,
     <<World, TreeBom("gb")>>, <<Hello2, NilBom>>}

\* the orders a finite set can be put in
Orders(S) ==
    {o \in [1..Cardinality(S) -> S] : \A i, j \in 1..Cardinality(S) : o[i] = o[j] => i = j}

InitOrder ==
    /\ trees = [t \in {"a", "b", "gb"} |->
                  IF t = "gb" THEN Filled(NewSha256OmniBOR, <<World, Hello>>)
                  ELSE NewSha1OmniBOR]
    /\ last = [op |-> "none"]
    /\ \E pairs \in {P \in SUBSET OrderPairs : Cardinality(P) \in 1..MaxPairs} :
          \E oa \in Orders(pairs), ob \in Orders(pairs) :
              plan = [pairs |-> pairs,
                      order |-> [t \in {"a", "b"} |-> IF t = "a" THEN oa ELSE ob],
                      done |-> [t \in {"a", "b"} |-> 0]]
    /\ workers = <<>>
    /\ lock = <<>>
    /\ driver = <<>>
    /\ agentChan = <<>>

\* the next AddReference of tree t's order
AddPlanned(t) ==
    /\ plan.done[t] < Len(plan.order[t])
    /\ LET pair == plan.order[t][plan.done[t] + 1]
       IN  \E r \in addGitRef(trees, t, [data |-> pair[1], fail |-> FALSE], pair[2],
                              Len(pair[1])) :
              /\ trees' = r.ts
              /\ last' = [op |-> "AddReference", tree |-> t, err |-> r.err]
    /\ plan' = [plan EXCEPT !.done[t] = @ + 1]
    /\ UNCHANGED <<workers, lock, driver, agentChan>>

NextOrder == \E t \in {"a", "b"} : AddPlanned(t)

SpecOrder == InitOrder /\ [][NextOrder]_vars

(***************************************************************************)
(* SpecConc: up to MaxWorkers threads, each calling AddReferenceFromReader *)
(* on the tree "gb" for the contents it takes from plan, the contents not  *)
(* yet taken (the agents of src/pkg/cmd/gitbom_cmd.go take them from       *)
(* agentChan).  A call computes the identity on its own, then locks        *)
(* srv.lock, reads srv.gitRefs, writes the appended slice back and unlocks.*)
(***************************************************************************)
ConcContents == {Hello, World, Hello2}

Idle == [pc |-> "idle"]

LockFreeAlways(holder) == TRUE

\* sync.Mutex: Lock returns when no thread holds the mutex
LockFree(holder) == holder = 0

InitConc ==
    /\ trees = [t \in {"gb"} |-> NewSha1OmniBOR]
    /\ last = [op |-> "none"]
    /\ plan = ConcContents
    /\ \E n \in 1..MaxWorkers : workers = [w \in 1..n |-> Idle]
    /\ lock = [t \in {"gb"} |-> 0]
    /\ driver = <<>>
    /\ agentChan = <<>>

\* the call is made; gitoid.New hashes the content
Call(w) ==
    /\ workers[w].pc = "idle"
    /\ \E obj \in plan :
          /\ plan' = plan \ {obj}
          /\ workers' = [workers EXCEPT ![w] =
                 [pc |-> "lock", identity |-> gitoidHash(obj, Len(obj), trees["gb"].hashType)]]
    /\ UNCHANGED <<trees, last, lock, driver, agentChan>>

Lock(w) ==
    /\ workers[w].pc = "lock"
    /\ LockFree(lock["gb"])
    /\ lock' = [lock EXCEPT !["gb"] = w]
    /\ workers' = [workers EXCEPT ![w].pc = "read"]
    /\ UNCHANGED <<trees, last, plan, driver, agentChan>>

\* append(srv.gitRefs, ref) reads the slice ...
ReadRefs(w) ==
    /\ workers[w].pc = "read"
    /\ workers' = [workers EXCEPT ![w] =
           [pc |-> "write", identity |-> @.identity, refs |-> trees["gb"].gitRefs]]
    /\ UNCHANGED <<trees, last, plan, lock, driver, agentChan>>

\* ... and srv.gitRefs = writes the longer one
WriteRefs(w) ==
    /\ workers[w].pc = "write"
    /\ trees' = [trees EXCEPT !["gb"].gitRefs =
                    Append(workers[w].refs, [identity |-> workers[w].identity, bom |-> NilBom])]
    /\ workers' = [workers EXCEPT ![w] = [pc |-> "unlock"]]
    /\ UNCHANGED <<last, plan, lock, driver, agentChan>>

Unlock(w) ==
    /\ workers[w].pc = "unlock"
    /\ lock' = [lock EXCEPT !["gb"] = 0]
    /\ workers' = [workers EXCEPT ![w] = Idle]
    /\ UNCHANGED <<trees, last, plan, driver, agentChan>>

NextConc ==
    \E w \in DOMAIN workers :
        \/ Call(w)
        \/ Lock(w)
        \/ ReadRefs(w)
        \/ WriteRefs(w)
        \/ Unlock(w)

SpecConc == InitConc /\ [][NextConc]_vars

(***************************************************************************)
(* SpecMutex: up to MaxWorkers threads make the calls of MutexCalls on the *)
(* tree "gb", each call once.  AddExistingReference walks srv.gitRefs      *)
(* first and takes the lock afterwards, for the append; String sorts and   *)
(* prints under the lock.                                                  *)
(***************************************************************************)
MutexCalls ==
    {[op |-> "AddReferenceFromReader", obj |-> Hello], [op |-> "String"]}
        \cup {[op |-> "AddExistingReference", input |-> gitoidHash(obj, Len(obj), "sha1")] :
                 obj \in Contents}

InitMutex ==
    /\ trees = [t \in {"gb"} |-> NewSha1OmniBOR]
    /\ last = [op |-> "none"]
    /\ plan = MutexCalls
    /\ \E n \in 1..MaxWorkers : workers = [w \in 1..n |-> Idle]
    /\ lock = [t \in {"gb"} |-> 0]
    /\ driver = <<>>
    /\ agentChan = <<>>

CallAddReferenceFromReader(w) ==
    /\ workers[w].pc = "idle"
    /\ \E c \in {x \in plan : x.op = "AddReferenceFromReader"} :
          /\ plan' = plan \ {c}
          /\ workers' = [workers EXCEPT ![w] =
                 [pc |-> "lock",
                  identity |-> gitoidHash(c.obj, Len(c.obj), trees["gb"].hashType)]]
    /\ UNCHANGED <<trees, last, lock, driver, agentChan>>

\* the length and the characters of the input are checked; the loop is next
CallAddExistingReference(w) ==
    /\ workers[w].pc = "idle"
    /\ \E c \in {x \in plan : x.op = "AddExistingReference"} :
          /\ plan' = plan \ {c}
          /\ workers' = [workers EXCEPT ![w] = [pc |-> "scan", identity |-> c.input]]
    /\ UNCHANGED <<trees, last, lock, driver, agentChan>>

\* for _, existingRef := range srv.gitRefs, without the lock.  While another
\* thread is writing the slice or sorting it the loop may miss a Reference.
Scan(w) ==
    /\ workers[w].pc = "scan"
    /\ LET refs == trees["gb"].gitRefs
           present == \E k \in 1..Len(refs) : refs[k].identity = workers[w].identity
           racing == \E v \in DOMAIN workers : v # w /\ workers[v].pc \in {"write", "sort"}
       IN  \E found \in (IF racing THEN {present, FALSE} ELSE {present}) :
              workers' = [workers EXCEPT ![w] =
                  IF found THEN Idle ELSE [pc |-> "lock", identity |-> @.identity]]
    /\ UNCHANGED <<trees, last, plan, lock, driver, agentChan>>

CallString(w) ==
    /\ workers[w].pc = "idle"
    /\ \E c \in {x \in plan : x.op = "String"} :
          /\ plan' = plan \ {c}
          /\ workers' = [workers EXCEPT ![w] = [pc |-> "lockSort"]]
    /\ UNCHANGED <<trees, last, lock, driver, agentChan>>

LockSort(w) ==
    /\ workers[w].pc = "lockSort"
    /\ LockFree(lock["gb"])
    /\ lock' = [lock EXCEPT !["gb"] = w]
    /\ workers' = [workers EXCEPT ![w].pc = "sort"]
    /\ UNCHANGED <<trees, last, plan, driver, agentChan>>

\* by(referenceSorter).sort(srv.gitRefs) and the loop over the sorted slice
Sort(w) ==
    /\ workers[w].pc = "sort"
    /\ trees' = [trees EXCEPT !["gb"].gitRefs = bySort(@)]
    /\ workers' = [workers EXCEPT ![w].pc = "unlock"]
    /\ UNCHANGED <<last, plan, lock, driver, agentChan>>

NextMutex ==
    \E w \in DOMAIN workers :
        \/ CallAddReferenceFromReader(w)
        \/ CallAddExistingReference(w)
        \/ Scan(w)
        \/ CallString(w)
        \/ LockSort(w)
        \/ Sort(w)
        \/ Lock(w)
        \/ ReadRefs(w)
        \/ WriteRefs(w)
        \/ Unlock(w)

SpecMutex == InitMutex /\ [][NextMutex]_vars

(***************************************************************************)
(* SpecSame: threads calling AddExistingReference on the tree "gb", two of *)
(* the calls with the same identity.  The tree starts empty or with the    *)
(* Reference of another content, never with the identity the two calls     *)
(* share.                                                                  *)
(***************************************************************************)
SameCalls(shared, other) ==
    {[op |-> "AddExistingReference", input |-> gitoidHash(shared, Len(shared), "sha1"),
      caller |-> k] : k \in 1..2}
        \cup {[op |-> "AddExistingReference", input |-> gitoidHash(other, Len(other), "sha1"),
               caller |-> 3]}

InitSame ==
    /\ \E held \in {<<>>, <<Hello2>>} : trees = [t \in {"gb"} |-> Filled(NewSha1OmniBOR, held)]
    /\ last = [op |-> "none"]
    /\ \E shared, other \in Contents : shared # other /\ plan = SameCalls(shared, other)
    /\ \E n \in 1..MaxWorkers : workers = [w \in 1..n |-> Idle]
    /\ lock = [t \in {"gb"} |-> 0]
    /\ driver = <<>>
    /\ agentChan = <<>>

NextSame ==
    \E w \in DOMAIN workers :
        \/ CallAddExistingReference(w)
        \/ Scan(w)
        \/ Lock(w)
        \/ ReadRefs(w)
        \/ WriteRefs(w)
        \/ Unlock(w)

SpecSame == InitSame /\ [][NextSame]_vars

(***************************************************************************)
(* SpecSnap: one thread that calls References() on the tree "gb" and keeps *)
(* the slice while it goes on calling the operations of the tree.          *)
(* References returns srv.gitRefs itself: the slice the caller holds has   *)
(* the length of that moment and the array of the tree.  driver is what    *)
(* the model knows of the two slices: cap is the capacity of srv.gitRefs,  *)
(* held whether the caller holds a slice, len its length, shared whether   *)
(* its array is still the array of srv.gitRefs, own its elements once it   *)
(* is not, and first its elements when References returned it.             *)
(***************************************************************************)
\* append on a full slice: the gc runtime doubles the capacity of a short
\* slice, and gives capacity 1 to a slice that had none
growslice(oldCap) == IF oldCap = 0 THEN 1 ELSE 2 * oldCap

InitSnap ==
    /\ trees = [t \in {"gb"} |-> NewSha1OmniBOR]
    /\ last = [op |-> "none"]
    /\ plan = <<>>
    /\ workers = <<>>
    /\ lock = <<>>
    /\ driver = [cap |-> 0, held |-> FALSE, len |-> 0, shared |-> FALSE, own |-> <<>>,
                 first |-> <<>>]
    /\ agentChan = <<>>

\* srv.gitRefs = append(srv.gitRefs, ref): in place when there is room, else
\* into a new array, and then the slice the caller holds keeps the old one
appended(ts) ==
    IF Len(ts["gb"].gitRefs) <= driver.cap THEN driver
    ELSE [driver EXCEPT !.cap = growslice(@),
                        !.shared = FALSE,
                        !.own = IF driver.shared
                                THEN SubSeq(trees["gb"].gitRefs, 1, driver.len) ELSE @]

SnapAddReference(obj) ==
    /\ Len(trees["gb"].gitRefs) <= MaxRefs
    /\ \E r \in addGitRef(trees, "gb", [data |-> obj, fail |-> FALSE], NilBom, Len(obj)) :
          /\ trees' = r.ts
          /\ driver' = appended(r.ts)
          /\ last' = [op |-> "AddReference", tree |-> "gb", obj |-> obj, bom |-> NilBom,
                      err |-> r.err]
    /\ UNCHANGED <<plan, workers, lock, agentChan>>

SnapAddExistingReference(input) ==
    /\ Len(trees["gb"].gitRefs) <= MaxRefs
    /\ \E r \in {addExisting(trees, "gb", input)} :
          /\ trees' = r.ts
          /\ driver' = appended(r.ts)
          /\ last' = [op |-> "AddExistingReference", tree |-> "gb", input |-> input,
                      err |-> r.err]
    /\ UNCHANGED <<plan, workers, lock, agentChan>>

\* References sorts srv.gitRefs in place and returns it; the first slice
\* returned is the one the caller keeps
SnapReferences ==
    /\ trees' = [trees EXCEPT !["gb"].gitRefs = bySort(@)]
    /\ last' = [op |-> "References", tree |-> "gb", out |-> trees'["gb"].gitRefs]
    /\ driver' = IF driver.held THEN driver
                 ELSE [driver EXCEPT !.held = TRUE, !.len = Len(trees["gb"].gitRefs),
                                     !.shared = TRUE, !.first = trees'["gb"].gitRefs]
    /\ UNCHANGED <<plan, workers, lock, agentChan>>

\* String and Identity sort srv.gitRefs in place
SnapString ==
    /\ String("gb")

SnapIdentity ==
    /\ Identity("gb")

NextSnap ==
    \/ \E obj \in ConcContents : SnapAddReference(obj)
    \/ \E obj \in ConcContents : SnapAddExistingReference(gitoidHash(obj, Len(obj), "sha1"))
    \/ SnapReferences
    \/ SnapString
    \/ SnapIdentity

SpecSnap == InitSnap /\ [][NextSnap]_vars

(***************************************************************************)
(* SpecShape: the three add operations and Identity on one tree, made by   *)
(* NewSha1OmniBOR or by NewSha256OmniBOR.  The identities handed to        *)
(* AddExistingReference are those of ExistingInputs: of either digest,     *)
(* well formed and damaged.                                                *)
(***************************************************************************)
ShapeReaders == {[data |-> data, fail |-> f] : data \in {<<>>, Hello}, f \in BOOLEAN}

InitShape ==
    /\ \E gb \in {NewSha1OmniBOR, NewSha256OmniBOR} : trees = [t \in {"gb"} |-> gb]
    /\ last = [op |-> "none"]
    /\ plan = <<>>
    /\ workers = <<>>
    /\ lock = <<>>
    /\ driver = <<>>
    /\ agentChan = <<>>

NextShape ==
    \/ \E obj \in Contents : AddReference("gb", obj, NilBom)
    \/ \E reader \in ShapeReaders : \E objLength \in ObjLengths(reader) \cap Nat :
          AddReferenceFromReader("gb", reader, NilBom, objLength)
    \/ \E input \in ExistingInputs : AddExistingReference("gb", input)
    \/ Identity("gb")

SpecShape == InitShape /\ [][NextShape]_vars

(***************************************************************************)
(* SpecBoth: the tree of NewGitBom (package gitbom in                      *)
(* src/pkg/cmd/gitbom_cmd.go), whose identities are "sha1+sha256".  Up to  *)
(* MaxWorkers threads call AddReference for the contents of plan and       *)
(* Identity.  An add appends under the lock; Identity calls sha1GitRef and *)
(* then sha256GitRef, and each of the two calls String, which sorts and    *)
(* prints under the lock.                                                  *)
(***************************************************************************)
Sha1Sha256Text == <<115, 104, 97, 49, 43, 115, 104, 97, 50, 53, 54>>   \* "sha1+sha256"
ColonText == <<58>>                                                     \* ":"

NewGitBom == [hashType |-> Sha1Sha256Text, gitRefs |-> <<>>]

\* reference.String of the package gitbom, for a Reference without bom
gitBomReferenceString(ref) ==
    BlobText \o Sha1Sha256Text \o ColonText \o ref.identity \o NewLine

\* gitBom.String; every Identity() starts with the same hashType, so the
\* order of referenceSorter is the order of the identity fields
gitBomString(tree) ==
    CHOOSE text \in
        {Join([k \in 1..Len(sorted) |-> gitBomReferenceString(sorted[k])] \o <<>>, <<>>) :
           sorted \in {bySort(tree.gitRefs)}} : TRUE

\* sha1GitRef and sha256GitRef: [generated, res]
gitBomGitRef(tree, alg) ==
    CHOOSE r \in
        {[generated |-> generated,
          res |-> generateGitHash([data |-> generated, fail |-> FALSE], Len(generated),
                                  <<alg>>).out] : generated \in {gitBomString(tree)}} : TRUE

InitBoth ==
    /\ trees = [t \in {"gb"} |-> NewGitBom]
    /\ last = [op |-> "none"]
    /\ plan = ConcContents
    /\ \E n \in 1..MaxWorkers : workers = [w \in 1..n |-> Idle]
    /\ lock = [t \in {"gb"} |-> 0]
    /\ driver = <<>>
    /\ agentChan = <<>>

\* gitBom.AddReference(obj, nil): both digests over the content, then the
\* append under the lock
BothAddReference(w) ==
    /\ workers[w].pc = "idle"
    /\ \E obj \in plan :
          /\ plan' = plan \ {obj}
          /\ \E r \in {generateGitHash([data |-> obj, fail |-> FALSE], Len(obj),
                                       <<"sha1", "sha256">>)} :
                trees' = [trees EXCEPT !["gb"].gitRefs =
                             Append(@, [identity |-> r.out, bom |-> NilBom])]
    /\ UNCHANGED <<last, workers, lock, driver, agentChan>>

\* Identity: srv.sha1GitRef() is evaluated first
BothSha1GitRef(w) ==
    /\ workers[w].pc = "idle"
    /\ trees' = [trees EXCEPT !["gb"].gitRefs = bySort(@)]
    /\ \E r \in {gitBomGitRef(trees["gb"], "sha1")} :
          workers' = [workers EXCEPT ![w] = [pc |-> "sha256", first |-> r]]
    /\ UNCHANGED <<last, plan, lock, driver, agentChan>>

\* ... then srv.sha256GitRef(), and the string is put together
BothSha256GitRef(w) ==
    /\ workers[w].pc = "sha256"
    /\ trees' = [trees EXCEPT !["gb"].gitRefs = bySort(@)]
    /\ \E r \in {gitBomGitRef(trees["gb"], "sha256")} :
          last' = [op |-> "Identity", tree |-> "gb",
                   out |-> Sha1Sha256Text \o ColonText \o workers[w].first.res
                              \o PlusText \o r.res,
                   generated |-> <<workers[w].first.generated, r.generated>>]
    /\ workers' = [workers EXCEPT ![w] = Idle]
    /\ UNCHANGED <<plan, lock, driver, agentChan>>

NextBoth ==
    \/ \E w \in DOMAIN workers : BothAddReference(w)
    \/ \E w \in DOMAIN workers : BothSha1GitRef(w)
    \/ \E w \in DOMAIN workers : BothSha256GitRef(w)

SpecBoth == InitBoth /\ [][NextBoth]_vars

(***************************************************************************)
(* SpecPool: artifactTreeCall and its agents (src/pkg/cmd/gitbom_cmd.go).  *)
(* plan is the run: the number of arguments and the entries the walk of    *)
(* the arguments comes across, in order.  An entry is a file, with the     *)
(* size os.Stat reports, the bytes a later read yields and whether it can  *)
(* be opened, or an error of the walk.  agentChan is unbuffered: a send    *)
(* and its receive are one step.  With the channel the model keeps, for    *)
(* the event of each entry, how often it was received and how often it was *)
(* handed to AddReferenceFromReader.                                       *)
(***************************************************************************)
FileEntry(obj) == [kind |-> "file", size |-> Len(obj), data |-> obj, opens |-> TRUE]

WalkErrorEntry == [kind |-> "error", size |-> 0, data |-> <<>>, opens |-> FALSE]

\* two files, a file that cannot be opened, a file that grew after os.Stat,
\* and an error of the walk
PoolEntries ==
    {FileEntry(Hello), FileEntry(World),
     [FileEntry(Hello2) EXCEPT !.opens = FALSE],
     [FileEntry(Hello2) EXCEPT !.size = 5],
     WalkErrorEntry}

\* runtime.GOMAXPROCS(0) and runtime.NumCPU() are at least 1
Processors == 1..MaxWorkers

PoolRuns ==
    {[args |-> a, entries |-> es, gomaxprocs |-> g, numcpu |-> n] :
        a \in {0}, es \in {<<>>}, g \in Processors, n \in Processors}
        \cup {[args |-> a, entries |-> es, gomaxprocs |-> g, numcpu |-> n] :
                 a \in {1}, es \in SeqsUpTo(PoolEntries, MaxFiles),
                 g \in Processors, n \in Processors}

InitPool ==
    /\ trees = [t \in {"gb"} |-> NewSha1OmniBOR]
    /\ last = [op |-> "none"]
    /\ plan \in PoolRuns
    /\ workers = <<>>
    /\ lock = [t \in {"gb"} |-> 0]
    /\ driver = [pc |-> "startAgents", call |-> 1, wg |-> 0, sent |-> 0, reads |-> 0,
                 err |-> "none"]
    /\ agentChan = [closed |-> FALSE,
                    received |-> [k \in 1..Len(plan.entries) |-> 0],
                    added |-> [k \in 1..Len(plan.entries) |-> 0]]

BarrierOpenAlways(wg) == TRUE

\* wg.Wait() returns when the counter is 0
BarrierOpen(wg) == wg = 0

agentCountLargest(gomaxprocs, numcpu) == IF gomaxprocs < numcpu THEN numcpu ELSE gomaxprocs

agentCount(gomaxprocs, numcpu) == IF gomaxprocs < numcpu THEN gomaxprocs ELSE numcpu

\* startAgents: a new WaitGroup, then wg.Add(1) and go agent(agentChan, wg)
\* agentCount times; call tells whose WaitGroup the agent holds
StartAgents ==
    /\ driver.pc = "startAgents"
    /\ \E n \in {agentCount(plan.gomaxprocs, plan.numcpu)} :
          /\ workers' = workers \o [i \in 1..n |->
                                      [pc |-> "receive", call |-> driver.call, files |-> {}]]
          /\ driver' = [driver EXCEPT !.pc = "args", !.wg = n]
    /\ UNCHANGED <<trees, last, plan, lock, agentChan>>

\* without arguments the help is printed and its error returned
CheckArgs ==
    /\ driver.pc = "args"
    /\ driver' = IF plan.args = 0 THEN [driver EXCEPT !.pc = "returned", !.err = "nil"]
                 ELSE [driver EXCEPT !.pc = "walk"]
    /\ UNCHANGED <<trees, last, plan, workers, lock, agentChan>>

\* fileEvent{path, info, gb}: the path is the place of the entry in the
\* walk, the size is info.Size(), data and opens are what the path yields
\* when it is opened, gb names the tree
fileEvent(path, entry, gb) ==
    [path |-> path, size |-> entry.size, data |-> entry.data, opens |-> entry.opens,
     gb |-> gb]

\* agentChan <- e in addPathToOmniBOR and ev := range e in an agent
Receive(w) ==
    /\ driver.pc = "walk"
    /\ driver.sent < Len(plan.entries)
    /\ plan.entries[driver.sent + 1].kind = "file"
    /\ ~agentChan.closed
    /\ workers[w].pc = "receive"
    /\ workers' = [workers EXCEPT ![w] =
           [pc |-> "open", call |-> @.call, files |-> @.files,
            ev |-> fileEvent(driver.sent + 1, plan.entries[driver.sent + 1], "gb")]]
    /\ driver' = [driver EXCEPT !.sent = @ + 1]
    /\ agentChan' = [agentChan EXCEPT !.received[driver.sent + 1] = @ + 1]
    /\ UNCHANGED <<trees, last, plan, lock>>

\* the walk reports an error: addPathToOmniBOR returns it, and so does
\* artifactTreeCall
WalkError ==
    /\ driver.pc = "walk"
    /\ driver.sent < Len(plan.entries)
    /\ plan.entries[driver.sent + 1].kind = "error"
    /\ driver' = [driver EXCEPT !.pc = "returned", !.err = "walk"]
    /\ UNCHANGED <<trees, last, plan, workers, lock, agentChan>>

Close ==
    /\ driver.pc = "walk"
    /\ driver.sent = Len(plan.entries)
    /\ ~agentChan.closed
    /\ agentChan' = [agentChan EXCEPT !.closed = TRUE]
    /\ driver' = [driver EXCEPT !.pc = "wait"]
    /\ UNCHANGED <<trees, last, plan, workers, lock>>

Wait ==
    /\ driver.pc = "wait"
    /\ BarrierOpen(driver.wg)
    /\ driver' = [driver EXCEPT !.pc = "writeObject"]
    /\ UNCHANGED <<trees, last, plan, workers, lock, agentChan>>

writeObjectWholeName(prefix, ts, t) ==
    [path |-> <<prefix, "object", SubSeq(gitRef(ts, t), 1, 2), gitRef(ts, t)>>,
     data |-> StringOf(ts, t)]

\* writeObject: the elements of objectPath and the bytes handed to
\* ioutil.WriteFile
writeObject(prefix, ts, t) ==
    CHOOSE file \in
        {[path |-> <<prefix, "object", SubSeq(objs, 1, 2), SubSeq(objs, 3, Len(objs))>>,
          data |-> StringOf(ts, t)] : objs \in {gitRef(ts, t)}} : TRUE

\* writeObject reads gb.Identity() and, when the directory could be made,
\* gb.String(); os.MkdirAll and ioutil.WriteFile may fail
WriteObject ==
    /\ driver.pc = "writeObject"
    /\ trees' = AfterString(trees, "gb")
    /\ \E written \in BOOLEAN :
          IF written
          THEN /\ driver' = [driver EXCEPT !.pc = "print", !.reads = 1]
               /\ \E file \in {writeObject(".bom", trees, "gb")} :
                      last' = [op |-> "WriteFile", path |-> file.path, data |-> file.data]
          ELSE /\ driver' = [driver EXCEPT !.pc = "returned", !.reads = 1, !.err = "write"]
               /\ UNCHANGED last
    /\ UNCHANGED <<plan, workers, lock, agentChan>>

\* fmt.Println(gb.Identity())
PrintIdentity ==
    /\ driver.pc = "print"
    /\ trees' = AfterString(trees, "gb")
    /\ \E out \in {gitRef(trees, "gb")} : last' = [op |-> "Println", out |-> out]
    /\ driver' = [driver EXCEPT !.pc = "returned", !.err = "nil"]
    /\ UNCHANGED <<plan, workers, lock, agentChan>>

\* the range over the closed channel ends; defer wg.Done()
Exit(w) ==
    /\ workers[w].pc = "receive"
    /\ agentChan.closed
    /\ workers' = [workers EXCEPT ![w].pc = "exited"]
    /\ driver' = IF workers[w].call = driver.call THEN [driver EXCEPT !.wg = @ - 1] ELSE driver
    /\ UNCHANGED <<trees, last, plan, lock, agentChan>>

OpenOrExit(w) ==
    /\ workers[w].pc = "open"
    /\ workers' = [workers EXCEPT ![w] =
           IF @.ev.opens THEN [@ EXCEPT !.pc = "add", !.files = @ \cup {workers[w].ev.path}]
           ELSE [pc |-> "exited", call |-> @.call, files |-> @.files]]
    /\ driver' = IF workers[w].ev.opens THEN driver ELSE [driver EXCEPT !.wg = @ - 1]
    /\ UNCHANGED <<trees, last, plan, lock, agentChan>>

\* addFileToOmniBOR: os.Open; on error the agent logs and receives again.
\* files are the paths of the files the agent holds open
Open(w) ==
    /\ workers[w].pc = "open"
    /\ workers' = [workers EXCEPT ![w] =
           IF @.ev.opens THEN [@ EXCEPT !.pc = "add", !.files = @ \cup {workers[w].ev.path}]
           ELSE [pc |-> "receive", call |-> @.call, files |-> @.files]]
    /\ UNCHANGED <<trees, last, plan, lock, driver, agentChan>>

AddFileTwice(w) ==
    /\ workers[w].pc = "add"
    /\ \E r \in addGitRef(trees, workers[w].ev.gb,
                           [data |-> workers[w].ev.data, fail |-> FALSE],
                           NilBom, workers[w].ev.size) :
          \E q \in addGitRef(r.ts, workers[w].ev.gb,
                               [data |-> workers[w].ev.data, fail |-> FALSE],
                               NilBom, workers[w].ev.size) :
              trees' = q.ts
    /\ workers' = [workers EXCEPT ![w] =
           [pc |-> "receive", call |-> @.call, files |-> @.files \ {@.ev.path}]]
    /\ agentChan' = [agentChan EXCEPT !.added[workers[w].ev.path] = @ + 2]
    /\ UNCHANGED <<last, plan, lock, driver>>

AddFileLeftOpen(w) ==
    /\ workers[w].pc = "add"
    /\ \E r \in addGitRef(trees, workers[w].ev.gb,
                           [data |-> workers[w].ev.data, fail |-> FALSE],
                           NilBom, workers[w].ev.size) :
          trees' = r.ts
    /\ workers' = [workers EXCEPT ![w] =
           [pc |-> "receive", call |-> @.call, files |-> @.files]]
    /\ agentChan' = [agentChan EXCEPT !.added[workers[w].ev.path] = @ + 1]
    /\ UNCHANGED <<last, plan, lock, driver>>

\* gb.AddReferenceFromReader(f, nil, info.Size()) and, as addFileToOmniBOR
\* returns, the deferred f.Close(); on error the agent logs and receives
\* again
AddFile(w) ==
    /\ workers[w].pc = "add"
    /\ \E r \in addGitRef(trees, workers[w].ev.gb,
                           [data |-> workers[w].ev.data, fail |-> FALSE],
                           NilBom, workers[w].ev.size) :
          trees' = r.ts
    /\ workers' = [workers EXCEPT ![w] =
           [pc |-> "receive", call |-> @.call, files |-> @.files \ {@.ev.path}]]
    /\ agentChan' = [agentChan EXCEPT !.added[workers[w].ev.path] = @ + 1]
    /\ UNCHANGED <<last, plan, lock, driver>>

NextPool ==
    \/ StartAgents
    \/ CheckArgs
    \/ WalkError
    \/ Close
    \/ Wait
    \/ WriteObject
    \/ PrintIdentity
    \/ \E w \in DOMAIN workers : Receive(w)
    \/ \E w \in DOMAIN workers : Exit(w)
    \/ \E w \in DOMAIN workers : Open(w)
    \/ \E w \in DOMAIN workers : AddFile(w)

SpecPool == InitPool /\ [][NextPool]_vars

\* the steps of the goroutines between the walk and the end of wg.Wait()
PoolSteps ==
    \/ Close
    \/ Wait
    \/ \E w \in DOMAIN workers : Receive(w)
    \/ \E w \in DOMAIN workers : Exit(w)
    \/ \E w \in DOMAIN workers : Open(w)
    \/ \E w \in DOMAIN workers : AddFile(w)

\* the Go scheduler runs a goroutine that can take a step; nothing is asked
\* of the steps before the walk or after the barrier
SpecPoolFair == SpecPool /\ WF_vars(PoolSteps)

(***************************************************************************)
(* SpecTwice: artifactTreeCall called a second time in the same process,   *)
(* with the same arguments.  agentChan is the package variable of the      *)
(* first call, closed or not as that call left it, and the agents the      *)
(* first call left behind still range over it.  "old" is the tree of the   *)
(* first call, which only events received during that call refer to.       *)
(***************************************************************************)
CallAgain ==
    /\ driver.pc = "returned"
    /\ driver.call = 1
    /\ driver' = [pc |-> "startAgents", call |-> 2, wg |-> 0, sent |-> 0, reads |-> 0,
                  err |-> "none"]
    /\ trees' = [t \in {"gb", "old"} |-> IF t = "gb" THEN NewSha1OmniBOR ELSE trees["gb"]]
    /\ workers' = [w \in DOMAIN workers |->
                      IF workers[w].pc \in {"open", "add"}
                      THEN [workers[w] EXCEPT !.ev.gb = "old"] ELSE workers[w]]
    /\ UNCHANGED <<last, plan, lock, agentChan>>

\* an unrecovered panic ends the program and every goroutine with it
Panicked(err) ==
    /\ driver' = [driver EXCEPT !.pc = "panicked", !.err = err]
    /\ workers' = [w \in DOMAIN workers |->
                      IF workers[w].pc = "exited" THEN workers[w]
                      ELSE [workers[w] EXCEPT !.pc = "killed"]]
    /\ UNCHANGED <<trees, last, plan, lock, agentChan>>

\* agentChan <- e in addPathToOmniBOR when the channel is closed
SendOnClosed ==
    /\ driver.pc = "walk"
    /\ driver.sent < Len(plan.entries)
    /\ plan.entries[driver.sent + 1].kind = "file"
    /\ agentChan.closed
    /\ Panicked("send on closed channel")

\* close(agentChan) when the channel is closed
CloseOfClosed ==
    /\ driver.pc = "walk"
    /\ driver.sent = Len(plan.entries)
    /\ agentChan.closed
    /\ Panicked("close of closed channel")

NextTwice ==
    \/ NextPool
    \/ CallAgain
    \/ SendOnClosed
    \/ CloseOfClosed

SpecTwice == InitPool /\ [][NextTwice]_vars

(***************************************************************************)
(* SpecRun: Run, the entry of the program, and the call it dispatches to.  *)
(* plan.command is os.Args[1], or "none" when os.Args has no second        *)
(* element; every argument after it names a file or a path that does not   *)
(* exist, so entry i is what the walk of argument i meets.                 *)
(***************************************************************************)
RunEntries == {FileEntry(Hello), FileEntry(World), WalkErrorEntry}

RunPlans ==
    {[command |-> c, args |-> 0, entries |-> <<>>, gomaxprocs |-> g, numcpu |-> n] :
        c \in {"none", "help"}, g \in Processors, n \in Processors}
        \cup {[command |-> c, args |-> Len(es), entries |-> es, gomaxprocs |-> g, numcpu |-> n] :
                c \in {"artifact-tree", "bom"}, es \in SeqsUpTo(RunEntries, MaxFiles),
                g \in Processors, n \in Processors}

InitRun ==
    /\ trees = [t \in {"gb"} |-> NewSha1OmniBOR]
    /\ last = [op |-> "none"]
    /\ plan \in RunPlans
    /\ workers = <<>>
    /\ lock = [t \in {"gb"} |-> 0]
    /\ driver = [pc |-> "run", call |-> 1, wg |-> 0, sent |-> 0, reads |-> 0, err |-> "none"]
    /\ agentChan = [closed |-> FALSE,
                    received |-> [k \in 1..Len(plan.entries) |-> 0],
                    added |-> [k \in 1..Len(plan.entries) |-> 0]]

\* Run: "artifact-tree" and "bom" both return artifactTreeCall(os.Args[2:]...),
\* everything else helpCall()
Run ==
    /\ driver.pc = "run"
    /\ driver' = IF plan.command \in {"artifact-tree", "bom"}
                 THEN [driver EXCEPT !.pc = "startAgents"]
                 ELSE [driver EXCEPT !.pc = "returned", !.err = "nil"]
    /\ UNCHANGED <<trees, last, plan, workers, lock, agentChan>>

NextRun ==
    \/ Run
    \/ NextPool

SpecRun == InitRun /\ [][NextRun]_vars

(***************************************************************************)
(* SpecBom: the commands artifact-tree and bom of the bonzai program       *)
(* (src/gitbom_test.go), one command in a process.  artifactTreeCall is    *)
(* the call of SpecPool: startAgents, the walk, close and wg.Wait().       *)
(* bomCall walks the paths args[2:] with a WaitGroup of its own and does   *)
(* not call startAgents; after the barrier it writes gb, adds the artifact *)
(* args[0] to gb2 with gb as its bom and writes gb2.  plan.entries is what *)
(* the walks meet, plan.artifact what args[0] names.  A tree of NewGitBom  *)
(* keeps sha1 and sha256 identities and its Identity() is Sha256GitRef().  *)
(***************************************************************************)
DirectoryEntry == [kind |-> "dir", size |-> 0, data |-> <<>>, opens |-> TRUE]

\* args[0] does not exist: os.Stat fails
MissingEntry == [kind |-> "missing", size |-> 0, data |-> <<>>, opens |-> FALSE]

BomEntries == {FileEntry(Hello), FileEntry(World), DirectoryEntry, WalkErrorEntry}

BomArtifacts == {FileEntry(Hello), [FileEntry(Hello) EXCEPT !.opens = FALSE], MissingEntry}

BomPlans ==
    {[command |-> "artifact-tree", args |-> IF es = <<>> THEN a ELSE 1, entries |-> es,
      artifact |-> MissingEntry, gomaxprocs |-> g, numcpu |-> n] :
        a \in {0, 1}, es \in SeqsUpTo(BomEntries, MaxFiles),
        g \in Processors, n \in Processors}
      \cup
    {[command |-> "bom", args |-> IF es = <<>> THEN a ELSE 3, entries |-> es,
      artifact |-> f, gomaxprocs |-> g, numcpu |-> n] :
        a \in {0, 1, 3}, es \in SeqsUpTo(BomEntries, MaxFiles), f \in BomArtifacts,
        g \in Processors, n \in Processors}

BonzaiNewGitBom == [hashType |-> "sha256", gitRefs |-> <<>>]

InitBom ==
    /\ trees = [t \in {"gb", "gb2"} |-> BonzaiNewGitBom]
    /\ last = [op |-> "none"]
    /\ plan \in BomPlans
    /\ workers = <<>>
    /\ lock = [t \in {"gb", "gb2"} |-> 0]
    /\ driver = [pc |-> IF plan.command = "bom" THEN "bomArgs" ELSE "startAgents",
                 call |-> 1, wg |-> 0, sent |-> 0, reads |-> 0, err |-> "none"]
    /\ agentChan = [closed |-> FALSE,
                    received |-> [k \in 1..Len(plan.entries) |-> 0],
                    added |-> [k \in 1..Len(plan.entries) |-> 0]]

\* bomCall: without arguments the help is printed; wg := sync.WaitGroup{}
BomCheckArgs ==
    /\ driver.pc = "bomArgs"
    /\ driver' = IF plan.args = 0 THEN [driver EXCEPT !.pc = "returned", !.err = "nil"]
                 ELSE [driver EXCEPT !.pc = "walk", !.wg = 0]
    /\ UNCHANGED <<trees, last, plan, workers, lock, agentChan>>

\* the walk meets a directory: nothing is sent
WalkDirectory ==
    /\ driver.pc = "walk"
    /\ driver.sent < Len(plan.entries)
    /\ plan.entries[driver.sent + 1].kind = "dir"
    /\ driver' = [driver EXCEPT !.sent = @ + 1]
    /\ UNCHANGED <<trees, last, plan, workers, lock, agentChan>>

\* addFileToGitbom past os.Open: AddSha1ReferenceFromReader on the file
\* through the TeeReader, then AddSha256ReferenceFromReader on the bytes
\* the first read left in reader2: [ts, err]
addBothReferences(ts, t, data, size, bom) ==
    LET r1 == generateGitHash([data |-> data, fail |-> FALSE], size, <<"sha1">>)
        ts1 == [ts EXCEPT ![t].gitRefs = Append(@, [identity |-> r1.out, bom |-> bom])]
        r2 == generateGitHash([data |-> data, fail |-> FALSE], size, <<"sha256">>)
    IN  IF r1.err # "nil" THEN [ts |-> ts, err |-> r1.err]
        ELSE IF r2.err # "nil" THEN [ts |-> ts1, err |-> r2.err]
        ELSE [ts |-> [ts1 EXCEPT ![t].gitRefs = Append(@, [identity |-> r2.out, bom |-> bom])],
              err |-> "nil"]

\* an agent: addFileToGitbom(ev.path, ev.info, ev.gb, nil) past os.Open,
\* and the deferred f.Close()
BonzaiAddFile(w) ==
    /\ workers[w].pc = "add"
    /\ \E r \in {addBothReferences(trees, workers[w].ev.gb, workers[w].ev.data,
                                   workers[w].ev.size, NilBom)} :
          trees' = r.ts
    /\ workers' = [workers EXCEPT ![w] =
           [pc |-> "receive", call |-> @.call, files |-> @.files \ {@.ev.path}]]
    /\ agentChan' = [agentChan EXCEPT !.added[workers[w].ev.path] = @ + 1]
    /\ UNCHANGED <<last, plan, lock, driver>>

\* bomCall: writeObject(".bom", gb)
BomWriteObject ==
    /\ driver.pc = "writeObject"
    /\ trees' = AfterString(trees, "gb")
    /\ \E written \in BOOLEAN :
          IF written
          THEN /\ driver' = [driver EXCEPT !.pc = "stat", !.reads = 1]
               /\ \E file \in {writeObject(".bom", trees, "gb")} :
                      last' = [op |-> "WriteFile", path |-> file.path, data |-> file.data]
          ELSE /\ driver' = [driver EXCEPT !.pc = "returned", !.reads = 1, !.err = "write"]
               /\ UNCHANGED last
    /\ UNCHANGED <<plan, workers, lock, agentChan>>

\* bomCall: os.Stat(args[0]) and addFileToGitbom(args[0], info, gb2, gb)
BomAddArtifact ==
    /\ driver.pc = "stat"
    /\ IF plan.artifact.kind = "missing"
       THEN /\ driver' = [driver EXCEPT !.pc = "returned", !.err = "stat"]
            /\ UNCHANGED trees
       ELSE IF ~plan.artifact.opens
       THEN /\ driver' = [driver EXCEPT !.pc = "returned", !.err = "open"]
            /\ UNCHANGED trees
       ELSE \E r \in {addBothReferences(trees, "gb2", plan.artifact.data,
                                        plan.artifact.size, TreeBom("gb"))} :
               /\ trees' = r.ts
               /\ driver' = IF r.err = "nil" THEN [driver EXCEPT !.pc = "writeObject2"]
                            ELSE [driver EXCEPT !.pc = "returned", !.err = r.err]
    /\ UNCHANGED <<last, plan, workers, lock, agentChan>>

\* bomCall: writeObject(".bom", gb2)
BomWriteObject2 ==
    /\ driver.pc = "writeObject2"
    /\ trees' = AfterString(trees, "gb2")
    /\ \E written \in BOOLEAN :
          IF written
          THEN /\ driver' = [driver EXCEPT !.pc = "print2"]
               /\ \E file \in {writeObject(".bom", trees, "gb2")} :
                      last' = [op |-> "WriteFile", path |-> file.path, data |-> file.data]
          ELSE /\ driver' = [driver EXCEPT !.pc = "returned", !.err = "write"]
               /\ UNCHANGED last
    /\ UNCHANGED <<plan, workers, lock, agentChan>>

\* bomCall: fmt.Println(gb2.Identity())
BomPrintIdentity ==
    /\ driver.pc = "print2"
    /\ trees' = AfterString(trees, "gb2")
    /\ \E out \in {gitRef(trees, "gb2")} : last' = [op |-> "Println", out |-> out]
    /\ driver' = [driver EXCEPT !.pc = "returned", !.err = "nil"]
    /\ UNCHANGED <<plan, workers, lock, agentChan>>

NextBom ==
    \/ StartAgents
    \/ CheckArgs
    \/ BomCheckArgs
    \/ WalkDirectory
    \/ WalkError
    \/ Close
    \/ Wait
    \/ plan.command = "artifact-tree" /\ WriteObject
    \/ PrintIdentity
    \/ plan.command = "bom" /\ BomWriteObject
    \/ BomAddArtifact
    \/ BomWriteObject2
    \/ BomPrintIdentity
    \/ \E w \in DOMAIN workers : Receive(w)
    \/ \E w \in DOMAIN workers : Exit(w)
    \/ \E w \in DOMAIN workers : Open(w)
    \/ \E w \in DOMAIN workers : BonzaiAddFile(w)

SpecBom == InitBom /\ [][NextBom]_vars

\* the steps of the goroutines from the check of the arguments to the end
\* of wg.Wait()
BomSteps ==
    \/ BomCheckArgs
    \/ WalkDirectory
    \/ Close
    \/ Wait
    \/ \E w \in DOMAIN workers : Receive(w)
    \/ \E w \in DOMAIN workers : Exit(w)
    \/ \E w \in DOMAIN workers : Open(w)
    \/ \E w \in DOMAIN workers : BonzaiAddFile(w)

\* the Go scheduler runs a goroutine that can take a step
SpecBomFair == SpecBom /\ WF_vars(BomSteps)

(***************************************************************************)
(* Reading a serialization back, for the properties: the lines of a text,  *)
(* the identity and the bom a line names, and the order of Go strings.     *)
(***************************************************************************)
LeastOf(S) == CHOOSE x \in S : \A y \in S : x <= y

\* the text between the line ends, without them
Lines(text) ==
    LET ends == {i \in 1..Len(text) : text[i] = 10}
        endOf(k) == CHOOSE e \in ends : Cardinality({x \in ends : x <= e}) = k
        startOf(k) == IF k = 1 THEN 1 ELSE endOf(k - 1) + 1
    IN  [k \in 1..Cardinality(ends) |-> SubSeq(text, startOf(k), endOf(k) - 1)] \o <<>>

\* what stands between "blob " and the next blank, or the end of the line
LineIdentity(line) ==
    LET blanks == {i \in 6..Len(line) : line[i] = 32}
    IN  IF blanks = {} THEN SubSeq(line, 6, Len(line))
        ELSE SubSeq(line, 6, LeastOf(blanks) - 1)

\* a <= b byte-wise: decided by the first place where they differ
LexLeq(a, b) ==
    LET both == IF Len(a) < Len(b) THEN Len(a) ELSE Len(b)
        differ == {i \in 1..both : a[i] # b[i]}
    IN  IF differ = {} THEN Len(a) <= Len(b)
        ELSE a[LeastOf(differ)] < b[LeastOf(differ)]

\* the line the serialization format prescribes for an identity and a bom
ShapedLine(ts, identity, bom) ==
    IF bom.kind = "nil" THEN BlobText \o identity \o NewLine
    ELSE BlobText \o identity \o BomText
            \o (IF bom.kind = "tree" THEN gitRef(ts, bom.tree) ELSE bom.identity)
            \o NewLine

RECURSIVE Concatenation(_)
Concatenation(texts) ==
    IF texts = <<>> THEN <<>> ELSE Head(texts) \o Concatenation(Tail(texts))

ContentIdentity(content, hashType) == gitoidHash(content, Len(content), hashType)

\* the digests tell apart the contents and the streams the runs use
NoCollision ==
    \A h \in {"sha1", "sha256"} :
        \A x, y \in Contents \cup ConcContents \cup HashStreams :
            ContentIdentity(x, h) = ContentIdentity(y, h) => x = y

(***************************************************************************)
(* Properties of Spec                                                      *)
(***************************************************************************)
\* C1: after any sequence of add operations on a tree, no two References
\* held by the tree have the same identity.
C1_UniqueIdentities ==
    \A t \in DOMAIN trees :
        \A i, j \in 1..Len(trees[t].gitRefs) :
            trees[t].gitRefs[i].identity = trees[t].gitRefs[j].identity => i = j

\* C2: first writer wins.  When AddReference(c, b2) returns right after
\* AddReference(c, b1) with b1 # b2, the serialization of the tree has
\* exactly one line for the identity of c, and it is the line with b1.
C2_FirstWriterWins ==
    [][(/\ last.op = "AddReference" /\ last'.op = "AddReference"
        /\ last.err = "nil" /\ last'.err = "nil"
        /\ last'.tree = last.tree /\ last'.obj = last.obj /\ last'.bom # last.bom)
       => \A text \in {StringOf(trees', last'.tree)} :
             LET identity == ContentIdentity(last.obj, trees[last.tree].hashType)
                 lines == Lines(text)
                 mine == {k \in 1..Len(lines) : LineIdentity(lines[k]) = identity}
             IN  /\ Cardinality(mine) = 1
                 /\ \A k \in mine :
                       lines[k] \o NewLine = ShapedLine(trees', identity, last.bom)]_vars

\* C5: the lines String() returns are in ascending byte-wise order of the
\* identity they name, one line for each Reference the tree holds.
C5_StringAscending ==
    last.op = "String" =>
        LET lines == Lines(last.out)
        IN  /\ Len(lines) = Len(trees[last.tree].gitRefs)
            /\ \A k \in 1..(Len(lines) - 1) :
                  LexLeq(LineIdentity(lines[k]), LineIdentity(lines[k + 1]))

C5_Witness ==
    /\ last.op = "String"
    /\ last.tree = "gb2"
    /\ LET lines == Lines(last.out)
       IN  /\ Len(lines) >= 2
           /\ LineIdentity(lines[1]) # LineIdentity(lines[Len(lines)])

\* C6: String() is the concatenation, one per Reference and with nothing
\* else, of "blob " + identity + "\n" for a Reference without bom and
\* "blob " + identity + " bom " + bom identity + "\n" for one with a bom;
\* a tree without References gives the empty string.
C6_StringShape ==
    last.op = "String" =>
        LET refs == trees[last.tree].gitRefs
        IN  /\ last.out = Concatenation([k \in 1..Len(refs) |->
                              ShapedLine(trees, refs[k].identity, refs[k].bom)])
            /\ refs = <<>> => last.out = <<>>

C6_Witness ==
    /\ last.op = "String"
    /\ \E i, j \in 1..Len(trees[last.tree].gitRefs) :
          /\ trees[last.tree].gitRefs[i].bom.kind = "nil"
          /\ trees[last.tree].gitRefs[j].bom.kind = "tree"
    /\ last.out # <<>>

\* C7: every Identity() call returns the content identity, under the digest
\* of its tree, of the String() of the References the tree holds at the call.
C7_IdentityOfCurrentString ==
    last.op = "Identity" =>
        last.out = ContentIdentity(StringOf(trees, last.tree), trees[last.tree].hashType)

C7_Witness ==
    /\ last.op = "Identity"
    /\ last.tree = "gb2"
    /\ Len(trees["gb2"].gitRefs) >= 2
    /\ last.out # ContentIdentity(<<>>, "sha1")

\* C9: when AddReferenceFromReader returns an error, the trees are what
\* they were before the call.
C9_FailedAddKeepsTree ==
    [][(last'.op = "AddReferenceFromReader" /\ last'.err # "nil") => trees' = trees]_vars

C9_Witness ==
    /\ last.op = "AddReferenceFromReader"
    /\ last.err = "content length"
    /\ last.read > last.objLength
    /\ Len(trees[last.tree].gitRefs) >= 1

\* C11: AddExistingReference(s) with a valid s appends one Reference with
\* identity s and no bom when the tree holds no Reference with identity s,
\* and leaves the trees as they were when it holds one.
C11_ExistingAddsOnceOrNothing ==
    [][(last'.op = "AddExistingReference" /\ last'.err = "nil") =>
          LET t == last'.tree
              refs == trees[t].gitRefs
          IN  IF \E k \in 1..Len(refs) : refs[k].identity = last'.input
              THEN trees' = trees
              ELSE trees' = [trees EXCEPT ![t].gitRefs =
                                Append(@, [identity |-> last'.input, bom |-> NilBom])]]_vars

C11_Witness ==
    /\ last.op = "AddExistingReference"
    /\ last.err = "nil"
    /\ LET refs == trees[last.tree].gitRefs
           held == {k \in 1..Len(refs) : refs[k].identity = last.input}
       IN  /\ Cardinality(held) = 1
           /\ \A k \in held : refs[k].bom.kind = "tree"

\* C12: on every tree, AddExistingReference(id(c)) and AddReference(c, nil)
\* lead to the same tree state and the same String().
C12_ExistingEqualsAddReference ==
    \A obj \in Contents :
        LET existing == addExisting(trees, "gb2", ContentIdentity(obj, trees["gb2"].hashType))
        IN  \A r \in addGitRef(trees, "gb2", [data |-> obj, fail |-> FALSE], NilBom, Len(obj)) :
                /\ r.ts = existing.ts
                /\ StringOf(r.ts, "gb2") = StringOf(existing.ts, "gb2")

\* how often r occurs in refs
Occurrences(refs, r) == Cardinality({k \in 1..Len(refs) : refs[k] = r})

\* C17: References() returns the References the tree holds, each as often
\* as the tree holds it, in ascending order of identity, which is the order
\* of the lines of String().
C17_ReferencesSorted ==
    [][last'.op = "References" =>
          LET held == trees[last'.tree].gitRefs
              out == last'.out
          IN  /\ Len(out) = Len(held)
              /\ \A k \in 1..Len(held) : Occurrences(out, held[k]) = Occurrences(held, held[k])
              /\ \A k \in 1..(Len(out) - 1) : LexLeq(out[k].identity, out[k + 1].identity)
              /\ \A text \in {StringOf(trees', last'.tree)} :
                    \A k \in 1..Len(out) : LineIdentity(Lines(text)[k]) = out[k].identity]_vars

C17_Witness ==
    /\ last.op = "References"
    /\ Len(last.out) >= 2
    /\ last.out[1].identity # last.out[Len(last.out)].identity
    /\ \E k \in 1..Len(last.out) : last.out[k].bom.kind # "nil"

\* the same References, each as often
SameMultiset(a, b) ==
    /\ Len(a) = Len(b)
    /\ \A k \in 1..Len(a) : Occurrences(a, a[k]) = Occurrences(b, a[k])

\* C31: String(), References() and Identity() leave, in every tree, the
\* multiset of (identity, bom) References as it was, and a String() that
\* follows a String() of the same tree returns the same text.
C31_ReadsKeepContents ==
    [][last'.op \in {"String", "References", "Identity"} =>
          /\ \A t \in DOMAIN trees : SameMultiset(trees[t].gitRefs, trees'[t].gitRefs)
          /\ (last.op = "String" /\ last'.op = "String" /\ last.tree = last'.tree)
                => last'.out = last.out]_vars

C31_Witness ==
    /\ last.op = "String"
    /\ last.tree = "gb2"
    /\ Len(trees["gb2"].gitRefs) = 3
    /\ \E j, k \in 1..3 :
          /\ j < k
          /\ trees["gb2"].gitRefs[j].identity = trees["gb2"].gitRefs[k].identity
          /\ trees["gb2"].gitRefs[j].bom # trees["gb2"].gitRefs[k].bom

(***************************************************************************)
(* Property of SpecHash                                                    *)
(***************************************************************************)
\* C8: for a stream that yields n bytes and ends, and a declared length L,
\* generateGitHash succeeds iff n = L; for n < L it returns the short read
\* error and for n > L the long read error, both with the empty string.
C8_LengthCheck ==
    (last.op = "generateGitHash" /\ ~last.reader.fail) =>
        LET n == Len(last.reader.data)
        IN  /\ last.err = "nil" <=> n = last.length
            /\ n < last.length => last.err = "short read" /\ last.out = <<>>
            /\ n > last.length => last.err = "long read" /\ last.out = <<>>
            /\ n = last.length => last.out # <<>>

C8_Witness ==
    /\ last.op = "generateGitHash"
    /\ ~last.reader.fail
    /\ Len(last.reader.data) = 2
    /\ last.length = 1
    /\ last.err = "long read"
    /\ last.out = <<>>

\* the value of a lower-case hexadecimal digit, 16 for any other character
LowerHexValue(c) ==
    IF c \in 48..57 THEN c - 48 ELSE IF c \in 97..102 THEN c - 87 ELSE 16

\* text is the lower-case hexadecimal form of bytes
IsLowerHexOf(text, bytes) ==
    /\ Len(text) = 2 * Len(bytes)
    /\ \A k \in 1..Len(bytes) :
          /\ LowerHexValue(text[2 * k - 1]) < 16
          /\ LowerHexValue(text[2 * k]) < 16
          /\ 16 * LowerHexValue(text[2 * k - 1]) + LowerHexValue(text[2 * k]) = bytes[k]

\* C24: when a content c of length L is hashed with declared length L,
\* every digest was fed "blob ", L in decimal, a NUL and the L bytes of c,
\* and nothing else, and the identity of a call with one digest is the
\* lower-case hexadecimal form of that digest's sum.
C24_HeaderThenContent ==
    (last.op = "generateGitHash" /\ last.err = "nil") =>
        /\ Len(last.reader.data) = last.length
        /\ \A i \in DOMAIN last.hashAlgorithm :
              /\ last.hashed[i].alg = last.hashAlgorithm[i]
              /\ last.hashed[i].written =
                    <<98, 108, 111, 98, 32>> \o Decimal(last.length) \o <<0>> \o last.reader.data
        /\ Len(last.hashAlgorithm) = 1 => IsLowerHexOf(last.out, HashSum(last.hashed[1]))

C24_Witness ==
    /\ last.op = "generateGitHash"
    /\ last.err = "nil"
    /\ last.length = 2
    /\ last.hashAlgorithm = <<"sha256">>
    /\ Len(last.out) = 64

\* the texts in order, with "+" between one and the next
RECURSIVE PlusJoined(_)
PlusJoined(texts) ==
    IF Len(texts) = 1 THEN texts[1] ELSE texts[1] \o <<43>> \o PlusJoined(Tail(texts))

\* C25: with several digests generateGitHash feeds the same bytes to every
\* digest, and its result is, in the order the digests were passed and with
\* "+" in between, what the call with each digest alone returns for the
\* same stream and length.
C25_DigestsJoinedInOrder ==
    (last.op = "generateGitHash" /\ last.err = "nil") =>
        /\ \A i, j \in DOMAIN last.hashAlgorithm :
              last.hashed[i].written = last.hashed[j].written
        /\ last.out = PlusJoined([i \in DOMAIN last.hashAlgorithm |->
               generateGitHash(last.reader, last.length, <<last.hashAlgorithm[i]>>).out])

C25_Witness ==
    /\ last.op = "generateGitHash"
    /\ last.err = "nil"
    /\ last.hashAlgorithm = <<"sha256", "sha1">>
    /\ Len(last.reader.data) = 2
    /\ Len(last.out) = 64 + 1 + 40

(***************************************************************************)
(* Properties of SpecExisting                                              *)
(***************************************************************************)
HexCharacters == (48..57) \cup (97..102) \cup (65..70)

WellFormed(s, hashType) ==
    /\ Len(s) = (IF hashType = "sha1" THEN 40 ELSE 64)
    /\ \A i \in 1..Len(s) : s[i] \in HexCharacters

\* C10: AddExistingReference(s) returns an error and leaves the tree as it
\* was unless s has only hexadecimal characters and the length of the
\* tree's digest, 40 for sha1 and 64 for sha256; such an s is accepted.
C10_MalformedRejected ==
    [][last'.op = "AddExistingReference" =>
          IF WellFormed(last'.input, trees[last'.tree].hashType)
          THEN last'.err = "nil"
          ELSE last'.err # "nil" /\ trees' = trees]_vars

C10_Witness ==
    /\ last.op = "AddExistingReference"
    /\ trees[last.tree].hashType = "sha1"
    /\ WellFormed(last.input, "sha256")
    /\ last.err # "nil"
    /\ Len(trees[last.tree].gitRefs) >= 1

\* C13: NewIdentifier(value) succeeds iff value has only hexadecimal
\* characters and the length of a digest, 40 or 64; for every other value
\* it returns an error and no Identifier.
C13_IdentifierValidated ==
    last.op = "NewIdentifier" =>
        /\ last.err = "nil" <=> (WellFormed(last.input, "sha1") \/ WellFormed(last.input, "sha256"))
        /\ last.err # "nil" => last.out = NilBom

(***************************************************************************)
(* Properties of SpecNested                                                *)
(***************************************************************************)
\* the lines of a text that name a bom
LinesWithBom(text) ==
    LET lines == Lines(text)
    IN  {lines[k] : k \in {j \in 1..Len(lines) : Len(lines[j]) > 5 + Len(LineIdentity(lines[j]))}}

\* C14: the bom identity printed on the line of a Reference stays the same:
\* a line with a bom that String() of the containing tree has before a step
\* of any operation on any tree, it has after the step.
C14_BomIdentityImmutable ==
    [][\A before \in {StringOf(trees, "gb2")}, after \in {StringOf(trees', "gb2")} :
          LinesWithBom(before) \subseteq LinesWithBom(after)]_vars

\* C16: Bom() of a Reference a tree holds returns, and returns the bom the
\* Reference was added with.
C16_BomReturnsBom ==
    last.op = "Bom" =>
        /\ last.err = "nil"
        /\ last.out = trees[last.tree].gitRefs[last.k].bom

(***************************************************************************)
(* Property of SpecCycle                                                   *)
(***************************************************************************)
\* C28: String() and Identity() return on every tree the add operations
\* can build, a tree that is its own bom or the bom of one of its boms
\* included: no call stays in Lock for good.
C28_StringReturns == last.op # "blocked"

(***************************************************************************)
(* Properties of SpecOrder                                                 *)
(***************************************************************************)
OrderDone == \A t \in {"a", "b"} : plan.done[t] = Len(plan.order[t])

SameResult ==
    /\ StringOf(trees, "a") = StringOf(trees, "b")
    /\ gitRef(trees, "a") = gitRef(trees, "b")

\* C3 as stated: for any finite set of (content, bom) pairs, two trees that
\* were given the pairs in two orders return the same String() and the same
\* Identity().
C3_OrderIndependence == OrderDone => SameResult

DistinctContents == \A p, q \in plan.pairs : p[1] = q[1] => p = q

\* C3, amended: the same, for the sets in which no content comes with two
\* different boms.
C3_OrderIndependenceDistinctContents == (OrderDone /\ DistinctContents) => SameResult

C3_Witness ==
    /\ OrderDone
    /\ DistinctContents
    /\ Cardinality(plan.pairs) = 3
    /\ plan.order["a"] # plan.order["b"]
    /\ trees["a"].gitRefs # trees["b"].gitRefs

(***************************************************************************)
(* Property of SpecConc                                                    *)
(***************************************************************************)
ConcDone == plan = {} /\ \A w \in DOMAIN workers : workers[w].pc = "idle"

Sequential == [t \in {"gb"} |-> Filled(NewSha1OmniBOR, <<Hello, World, Hello2>>)]

\* C4: once all concurrent AddReferenceFromReader calls for contents of
\* pairwise distinct identities have returned, the tree holds exactly one
\* Reference per content, and its String() and Identity() are those of a
\* tree that was given the contents one after another.
C4_ConcurrentEqualsSequential ==
    ConcDone =>
        LET refs == trees["gb"].gitRefs
        IN  /\ Len(refs) = Cardinality(ConcContents)
            /\ \A obj \in ConcContents :
                  Cardinality({k \in 1..Len(refs) :
                                  refs[k].identity = ContentIdentity(obj, "sha1")}) = 1
            /\ StringOf(trees, "gb") = StringOf(Sequential, "gb")
            /\ gitRef(trees, "gb") = gitRef(Sequential, "gb")

C4_Witness ==
    /\ ConcDone
    /\ Len(workers) = 2
    /\ trees["gb"].gitRefs # Sequential["gb"].gitRefs

(***************************************************************************)
(* Property of SpecMutex                                                   *)
(***************************************************************************)
\* the thread is at a read or a write of srv.gitRefs
Accessing(w) == workers[w].pc \in {"scan", "read", "write", "sort"}

\* C15: a thread that reads or writes the reference list of a tree holds
\* the lock of the tree, so no two threads are at the list at once.
C15_MutualExclusion ==
    /\ \A w \in DOMAIN workers : Accessing(w) => lock["gb"] = w
    /\ \A v, w \in DOMAIN workers : (Accessing(v) /\ Accessing(w)) => v = w

(***************************************************************************)
(* Property of SpecSame                                                    *)
(***************************************************************************)
\* C26: when the calls of AddExistingReference have all returned, two of
\* them made with the same identity by different threads, the tree holds
\* exactly one Reference with that identity.
C26_SameIdentityAddedOnce ==
    (plan = {} /\ \A w \in DOMAIN workers : workers[w].pc = "idle") =>
        \A obj \in Contents :
            Cardinality({k \in 1..Len(trees["gb"].gitRefs) :
                            trees["gb"].gitRefs[k].identity = ContentIdentity(obj, "sha1")}) = 1

(***************************************************************************)
(* Property of SpecSnap                                                    *)
(***************************************************************************)
\* the elements of the slice the caller holds, as the caller reads them now
Snapshot ==
    IF driver.shared THEN SubSeq(trees["gb"].gitRefs, 1, driver.len) ELSE driver.own

\* C27: the slice References() returned has, after any later operations on
\* the tree, the length, the elements and the order it had when it was
\* returned.
C27_ReferencesIsSnapshot ==
    driver.held => Snapshot = driver.first

(***************************************************************************)
(* Property of SpecShape                                                   *)
(***************************************************************************)
DigestChars(hashType) == IF hashType = "sha256" THEN 64 ELSE 40

\* C33: after any sequence of the three add operations every identity a
\* tree from NewSha1OmniBOR holds is 40 hexadecimal characters and every
\* identity a tree from NewSha256OmniBOR holds is 64, the length of the
\* tree's own Identity().
C33_DigestShape ==
    \A t \in DOMAIN trees :
        /\ \A k \in 1..Len(trees[t].gitRefs) :
              /\ Len(trees[t].gitRefs[k].identity) = DigestChars(trees[t].hashType)
              /\ \A i \in 1..Len(trees[t].gitRefs[k].identity) :
                    IsHexChar(trees[t].gitRefs[k].identity[i])
        /\ (last.op = "Identity" /\ last.tree = t)
              => Len(last.out) = DigestChars(trees[t].hashType)

C33_Witness ==
    /\ last.op = "Identity"
    /\ trees["gb"].hashType = "sha256"
    /\ Len(trees["gb"].gitRefs) >= 2
    /\ \E k \in 1..Len(trees["gb"].gitRefs) :
          trees["gb"].gitRefs[k].identity \notin
              {gitoidHash(obj, Len(obj), "sha256") : obj \in Contents}

(***************************************************************************)
(* Property of SpecBoth                                                    *)
(***************************************************************************)
\* C32: every Identity() of the sha1+sha256 tree is "sha1+sha256:", the
\* SHA-1 identity, "+" and the SHA-256 identity of one and the same
\* serialization of the tree, also while other threads add References.
C32_BothDigestsOfOneText ==
    last.op = "Identity" =>
        \E text \in {last.generated[1], last.generated[2]} :
            last.out = <<115, 104, 97, 49, 43, 115, 104, 97, 50, 53, 54, 58>>
                          \o ContentIdentity(text, "sha1") \o <<43>>
                          \o ContentIdentity(text, "sha256")

(***************************************************************************)
(* Properties of SpecPool                                                  *)
(***************************************************************************)
\* the same References, each as often, in whatever order
SameReferences(a, b) ==
    /\ Len(a) = Len(b)
    /\ \A k \in 1..Len(a) : Occurrences(a, a[k]) = Occurrences(b, a[k])

\* the channel is closed and every agent has called wg.Done() and is gone
BarrierPassed ==
    /\ agentChan.closed
    /\ driver.wg = 0
    /\ \A w \in DOMAIN workers : workers[w].pc = "exited"

\* C18: when artifactTreeCall has read Identity() or String() of the tree,
\* the channel is closed and every agent has signalled completion, and no
\* step at or after the first read adds to the tree.
C18_ReadsAfterBarrier ==
    [][driver'.reads > 0 =>
          /\ BarrierPassed'
          /\ SameReferences(trees["gb"].gitRefs, trees'["gb"].gitRefs)]_vars

C18_Witness ==
    /\ driver.reads > 0
    /\ BarrierPassed
    /\ Len(workers) = 2
    /\ Len(trees["gb"].gitRefs) = 2

\* the file can be opened and has the size it had when it was enumerated
Succeeds(entry) == entry.kind = "file" /\ entry.opens /\ entry.size = Len(entry.data)

\* the tree holds a Reference for each entry that succeeds, and no other
HoldsSuccesses ==
    LET refs == trees["gb"].gitRefs
        ok == {k \in 1..Len(plan.entries) : Succeeds(plan.entries[k])}
    IN  /\ Len(refs) = Cardinality(ok)
        /\ \A k \in ok :
              Cardinality({j \in 1..Len(refs) :
                              refs[j].identity = ContentIdentity(plan.entries[k].data, "sha1")})
                  = Cardinality({j \in ok : plan.entries[j].data = plan.entries[k].data})

AllFiles == plan.args > 0 /\ \A k \in 1..Len(plan.entries) : plan.entries[k].kind = "file"

\* C19: no agent leaves before the channel is closed, whatever became of
\* its tasks, and when the walk meets only files, failing ones or not, the
\* run gets past the barrier with a tree that holds the References of the
\* files whose hashing succeeded.
C19_FailedTaskKeepsPool ==
    /\ [](\A w \in DOMAIN workers : workers[w].pc = "exited" => agentChan.closed)
    /\ (driver.pc = "walk" /\ AllFiles)
           ~> (driver.pc = "writeObject" /\ BarrierPassed /\ HoldsSuccesses)

C19_Witness ==
    /\ driver.pc = "writeObject"
    /\ BarrierPassed
    /\ Len(plan.entries) = 2
    /\ ~Succeeds(plan.entries[1])
    /\ Succeeds(plan.entries[2])
    /\ Len(trees["gb"].gitRefs) = 1

\* C20: artifactTreeCall returns nil only when every file it sent to the
\* agents was added: a file whose hashing failed makes it return an error.
C20_FailureStatus ==
    (driver.pc = "returned" /\ driver.err = "nil") =>
        \A k \in 1..driver.sent : Succeeds(plan.entries[k])

\* C23: writeObject stores the String() of the tree in the file
\* <prefix>/object/<first 2 characters of Identity()>/<the other characters>,
\* and the content identity of the bytes stored is the identity in the path.
C23_ObjectStoredUnderIdentity ==
    last.op = "WriteFile" =>
        /\ last.data = StringOf(trees, "gb")
        /\ Len(last.path) = 4
        /\ last.path[1] = ".bom"
        /\ last.path[2] = "object"
        /\ Len(last.path[3]) = 2
        /\ last.path[3] \o last.path[4] = gitRef(trees, "gb")
        /\ last.path[3] \o last.path[4] = ContentIdentity(last.data, trees["gb"].hashType)

C23_Witness ==
    /\ last.op = "WriteFile"
    /\ Len(trees["gb"].gitRefs) = 2
    /\ Len(last.path[4]) = 38

\* C29: whichever way artifactTreeCall returns, every agent that
\* startAgents started for it has left or leaves later on; none waits on
\* the channel for ever.
C29_AgentsLeaveOnReturn ==
    (driver.pc = "returned") ~> (\A w \in DOMAIN workers : workers[w].pc = "exited")

\* wg.Wait() has returned
PastBarrier ==
    \/ driver.pc \in {"writeObject", "print"}
    \/ driver.pc = "returned" /\ driver.reads > 0

\* the files sent have pairwise distinct contents
DistinctFiles ==
    \A j, k \in 1..driver.sent : plan.entries[j].data = plan.entries[k].data => j = k

\* the tree holds one Reference for each file sent that succeeds, and no other
OneReferencePerSuccess ==
    LET refs == trees["gb"].gitRefs
        ok == {k \in 1..driver.sent : Succeeds(plan.entries[k])}
    IN  /\ Len(refs) = Cardinality(ok)
        /\ \A k \in ok :
              Cardinality({j \in 1..Len(refs) :
                  refs[j].identity = ContentIdentity(plan.entries[k].data, "sha1")}) = 1

\* C30 as stated: past the barrier every event sent was received once and
\* handed to AddReferenceFromReader once, and for pairwise distinct contents
\* the tree holds one Reference per file that succeeded and none for the
\* others.
C30_ExactlyOnce ==
    PastBarrier =>
        /\ \A k \in 1..driver.sent :
              agentChan.received[k] = 1 /\ agentChan.added[k] = 1
        /\ DistinctFiles => OneReferencePerSuccess

\* C30, amended: past the barrier every event sent was received once; it
\* was handed to AddReferenceFromReader once when its file could be opened
\* and never when it could not; and for pairwise distinct contents the tree
\* holds one Reference per file that succeeded and none for the others.
C30_ExactlyOnceWhenOpened ==
    PastBarrier =>
        /\ \A k \in 1..driver.sent :
              /\ agentChan.received[k] = 1
              /\ agentChan.added[k] = (IF plan.entries[k].opens THEN 1 ELSE 0)
        /\ DistinctFiles => OneReferencePerSuccess

C30_Witness ==
    /\ PastBarrier
    /\ driver.sent = 2
    /\ Len(workers) = 2
    /\ DistinctFiles
    /\ ~plan.entries[1].opens
    /\ Succeeds(plan.entries[2])
    /\ agentChan.received = <<1, 1>>
    /\ agentChan.added = <<0, 1>>
    /\ Len(trees["gb"].gitRefs) = 1

\* the paths of the files agent w holds open
OpenFiles(w) == workers[w].files

\* C34: an agent that waits for its next task, or has exited, has closed
\* every file it opened, whether the add succeeded or failed; once the
\* barrier wg.Wait() is passed no agent holds an open file.
C34_FilesClosedBeforeNextTask ==
    /\ \A w \in DOMAIN workers :
          workers[w].pc \in {"receive", "exited"} => OpenFiles(w) = {}
    /\ PastBarrier => \A w \in DOMAIN workers : OpenFiles(w) = {}

\* past the barrier, after one add that failed and one that succeeded
C34_Witness ==
    /\ PastBarrier
    /\ \E j, k \in 1..Len(plan.entries) :
          /\ agentChan.added[j] = 1 /\ plan.entries[j].size # Len(plan.entries[j].data)
          /\ agentChan.added[k] = 1 /\ plan.entries[k].size = Len(plan.entries[k].data)

\* the agents that have not exited
Alive == {w \in DOMAIN workers : workers[w].pc # "exited"}

\* C35: startAgents starts exactly min(GOMAXPROCS, NumCPU) agents, at least
\* one; the WaitGroup it returns counts the agents started, so wg.Wait()
\* can return if and only if all of them have exited.
C35_BarrierCountsAgents ==
    /\ driver.pc = "startAgents" => workers = <<>>
    /\ driver.pc # "startAgents" =>
          /\ Len(workers) >= 1
          /\ Len(workers) <= plan.gomaxprocs /\ Len(workers) <= plan.numcpu
          /\ Len(workers) \in {plan.gomaxprocs, plan.numcpu}
          /\ driver.wg = Cardinality(Alive)
          /\ BarrierOpen(driver.wg) <=> \A w \in DOMAIN workers : workers[w].pc = "exited"

\* GOMAXPROCS below NumCPU, and the agents gone one after the other
C35_Witness ==
    /\ plan.gomaxprocs < plan.numcpu
    /\ driver.pc = "writeObject"
    /\ Len(workers) = plan.gomaxprocs

(***************************************************************************)
(* Properties of SpecRun                                                   *)
(***************************************************************************)
\* what the bom command is to report for a primary artifact and its
\* dependencies: the identity of a tree whose one Reference is the primary
\* artifact with the tree over the dependencies as its bom
BomCommandIdentity(entries) ==
    LET deps == Tail(entries)
        first == Filled(NewSha1OmniBOR, [k \in 1..Len(deps) |-> deps[k].data])
        ts == [t \in {"gb", "gb2"} |-> IF t = "gb" THEN first ELSE NewSha1OmniBOR]
        r == CHOOSE x \in addGitRef(ts, "gb2", [data |-> entries[1].data, fail |-> FALSE],
                                    TreeBom("gb"), Len(entries[1].data)) : TRUE
    IN  gitRef(r.ts, "gb2")

\* C21: the identity the bom command prints is the identity of the second
\* tree, whose single Reference is the primary artifact with the identity
\* of the tree over the dependency paths as its bom.
C21_BomCommandNests ==
    (plan.command = "bom" /\ last.op = "Println") =>
        last.out = BomCommandIdentity(plan.entries)

(***************************************************************************)
(* Properties of SpecTwice                                                 *)
(***************************************************************************)
\* C22: a second artifactTreeCall in the same process has a pool of its
\* own: it does not panic on the channel, the channel it sends on is open,
\* and no agent of the first call is still about.
C22_FreshPoolPerCall ==
    driver.call = 2 =>
        /\ driver.pc # "panicked"
        /\ driver.pc = "walk" => ~agentChan.closed
        /\ \A w \in DOMAIN workers :
              workers[w].call = 1 => workers[w].pc = "exited"

(***************************************************************************)
(* Property of SpecBomFair                                                 *)
(***************************************************************************)
\* bomCall is past wg.Wait()
BomPastBarrier == driver.pc \in {"writeObject", "stat", "writeObject2", "print2", "returned"}

\* the walks of bomCall meet no error and at least one file
BomWalksMeetFile ==
    /\ plan.command = "bom"
    /\ plan.args > 0
    /\ \A k \in 1..Len(plan.entries) : plan.entries[k].kind # "error"
    /\ \E k \in 1..Len(plan.entries) : plan.entries[k].kind = "file"

\* C36: in the bom command, run as the one command of its process, agents
\* receive on agentChan while the paths are walked: every file event that
\* bomCall sends is eventually received, and bomCall comes past wg.Wait()
\* whenever the paths it walks contain a file.
C36_BomSendsAreReceived ==
    /\ \A k \in 1..MaxFiles :
          (/\ plan.command = "bom" /\ driver.pc = "walk" /\ driver.sent = k - 1
           /\ k <= Len(plan.entries) /\ plan.entries[k].kind = "file")
             ~> (k <= Len(plan.entries) /\ agentChan.received[k] = 1)
    /\ (BomWalksMeetFile /\ driver.pc = "walk") ~> BomPastBarrier

====
